---- MODULE Spec2Model ----
(***************************************************************************)
(* Model of eggd_generate_fusion_workbook: the join engine make_sf_pivot   *)
(* (utils/parser.py), the concurrent reader _parse_fusion_files            *)
(* (utils/parser.py) and the summary-sheet materializer add_lookup_columns *)
(* (utils/summary_sheet.py).                                               *)
(*                                                                         *)
(* A pandas DataFrame is a record [cols, rows]: the set of column labels   *)
(* and the sequence of rows.  A missing value (NaN) is NullS in a text     *)
(* column and NullN in a numeric column.  Column "#FusionName" is written  *)
(* FusionName, "Unique Reads(M)" UniqueReadsM, "Duplicate Reads(M)"        *)
(* DuplicateReadsM, "Specimen Identifier" SpecimenIdentifier.              *)
(***************************************************************************)
EXTENDS Integers, Sequences, FiniteSets, TLC

VARIABLES
    sf_df,            \* make_sf_pivot argument: current STAR-Fusion table
    sf_runs_df,       \* make_sf_pivot argument: historical run counts
    fastqc_pivot_df,  \* make_sf_pivot argument: FastQC pivot
    fi_df,            \* make_sf_pivot argument: Fusion Inspector table
    prev_pos,         \* make_sf_pivot argument: previous positives
    ref_sources,      \* make_sf_pivot argument: reference sources
    joined,           \* local df of make_sf_pivot where it returned or raised
    pivot_df,         \* value returned by make_sf_pivot
    pivot_err,        \* exception raised by make_sf_pivot ("" when none)
    pivot_pc          \* "call" before make_sf_pivot, "done" after

pivot_vars == <<sf_df, sf_runs_df, fastqc_pivot_df, fi_df, prev_pos,
                ref_sources, joined, pivot_df, pivot_err, pivot_pc>>

VARIABLES
    dxfiles,          \* _parse_fusion_files argument: the files to read
    futures,          \* number of read tasks submitted to the executor so far
    task,             \* per file: "new", "queued", "running", "ok" or "raised"
    attempts,         \* per file: how many times read_dxfile was started on it
    completed,        \* the files in the order in which their reads ended
    results,          \* local list results of _parse_fusion_files
    next_future,      \* position of the loop "for future in futures"
    read_out,         \* value returned by _parse_fusion_files
    read_pc,          \* "call", "submit", "collect", "returned", "raised"
    reader,           \* the public reader called: parse_star_fusion or
                      \* parse_fusion_inspector
    reader_out,       \* value returned by the public reader
    reader_err,       \* exception raised by the public reader ("" when none)
    reader_pc         \* "call" inside the public reader, "done" after

read_vars == <<dxfiles, futures, task, attempts, completed, results, next_future,
               read_out, read_pc, reader, reader_out, reader_err, reader_pc>>

VARIABLES
    summary,          \* write_summary argument data: the rows of the summary
    config,           \* write_summary argument config: the keys it has
    ws,               \* the Summary worksheet: cells, merged ranges, error
    fmt,              \* the formatting of the worksheet: data bars, fills, borders
    sheet_err,        \* exception raised by write_summary ("" when none)
    sheet_pc          \* "validate", "write", "drop", "lookup", "format", "done",
                      \* "raised"

sheet_vars == <<summary, config, ws, fmt, sheet_err, sheet_pc>>

VARIABLES
    call_fn,          \* the parsing helper called
    call_arg,         \* its argument
    call_ret,         \* the values returned so far, one per call that returned
    call_err,         \* the exception it raised ("" when none)
    call_local,       \* a local of the helper where it returned or raised
    call_pc           \* "call" before the helper runs, "done" after

parse_vars == <<call_fn, call_arg, call_ret, call_err, call_local, call_pc>>

VARIABLES
    pool_n,           \* executor of _parse_fusion_files: len(dxfiles)
    pool_futures,     \* number of tasks submitted to the executor so far
    pool_queued,      \* submitted tasks no worker has taken yet
    pool_running,     \* tasks whose read_dxfile is in progress in a worker
    pool_finished,    \* tasks whose read_dxfile returned or raised
    pool_pc           \* "call", "submit", "collect", "returned"

pool_vars == <<pool_n, pool_futures, pool_queued, pool_running, pool_finished,
               pool_pc>>

VARIABLES
    found,            \* generate_static_file: the files find_sf_files listed
    requests,         \* the projects project_unarchive was called for, in order
    read_files,       \* positions in found of the files read_sf_file has read
    static_err,       \* exception raised by generate_static_file ("" when none)
    static_pc         \* "find", "check", "read", "parsed", "exited", "raised"

static_vars == <<found, requests, read_files, static_err, static_pc>>

other_vars == <<pool_vars, static_vars>>

vars == <<pivot_vars, read_vars, sheet_vars, parse_vars, other_vars>>

-----------------------------------------------------------------------------
(* Values *)

NullS == "NaN"
NullN == 0 - 1

NumCols == {"JunctionReadCount", "SpanningFragCount", "FFPM", "Count_predicted",
            "UniqueReadsM", "DuplicateReadsM"}

NullOf(c) == IF c \in NumCols THEN NullN ELSE NullS

IsNull(c, v) == v = NullOf(c)

\* Text values of the model in ascending code-point order (Python str order).
StrOrd == <<"", "A--B", "C--D", "DB1", "DB1,DB2", "DB2", "FRAMESHIFT", "INFRAME",
            "RUN-SPEC1-PANEL_x", "RUN-SPEC2-PANEL_x", "SP1", "SP2", "SPEC1", "SPEC2", "SPEC3",
            "chr1:100", "chr1:100_chr2:200", "chr1:300", "chr1:300_chr2:200",
            "chr2:200">>

\* position of a text value in that order
Rank == [s \in {StrOrd[i] : i \in 1..Len(StrOrd)} |->
            CHOOSE i \in 1..Len(StrOrd) : StrOrd[i] = s]

\* pandas object-column "+": a missing operand gives a missing result
StrAdd(a, b) == IF a = NullS \/ b = NullS THEN NullS ELSE a \o b

RECURSIVE JoinStr(_, _)
\* sep.join(parts)
JoinStr(parts, sep) ==
    IF parts = <<>> THEN ""
    ELSE IF Len(parts) = 1 THEN parts[1]
    ELSE parts[1] \o sep \o JoinStr(Tail(parts), sep)

RECURSIVE SplitAcc(_, _, _)
SplitAcc(chars, sep, cur) ==
    IF chars = <<>> THEN <<cur>>
    ELSE IF Head(chars) = sep THEN <<cur>> \o SplitAcc(Tail(chars), sep, "")
    ELSE SplitAcc(Tail(chars), sep, cur \o Head(chars))

\* str.split(sep) of a name given as its sequence of characters
Split(chars, sep) == SplitAcc(chars, sep, "")

\* a sequence given as a function on 1..n, as a tuple
Tup(s) == SubSeq(s, 1, Len(s))

\* The permutation of 1..n that orders the indices by the relation less (a
\* function on pairs of indices), ties in index order (a stable sort).
OrderBy(n, less) ==
    LET pos(i) == 1 + Cardinality({j \in 1..n :
                        less[j, i] \/ (~less[i, j] /\ j < i)})
        at  == Tup([i \in 1..n |-> pos(i)])
    IN  Tup([p \in 1..n |-> CHOOSE i \in 1..n : at[i] = p])

RECURSIVE Flatten(_)
Flatten(ss) == IF ss = <<>> THEN <<>> ELSE Head(ss) \o Flatten(Tail(ss))

Table(cols, rows) == [cols |-> cols, rows |-> Tup(rows)]

\* DataFrame.empty: some axis has length 0
IsEmpty(t) == t.cols = {} \/ t.rows = <<>>

\* The variables of a part of the program that is not running
PivotIdle ==
    /\ sf_df = Table({}, <<>>) /\ sf_runs_df = Table({}, <<>>)
    /\ fastqc_pivot_df = Table({}, <<>>) /\ fi_df = Table({}, <<>>)
    /\ prev_pos = Table({}, <<>>) /\ ref_sources = Table({}, <<>>)
    /\ joined = Table({}, <<>>) /\ pivot_df = Table({}, <<>>)
    /\ pivot_err = "" /\ pivot_pc = "idle"

ReadIdle ==
    /\ dxfiles = <<>> /\ futures = 0 /\ task = <<>> /\ attempts = <<>>
    /\ completed = <<>>
    /\ results = <<>> /\ next_future = 1 /\ read_out = Table({}, <<>>)
    /\ read_pc = "idle"
    /\ reader = "" /\ reader_out = Table({}, <<>>) /\ reader_err = ""
    /\ reader_pc = "idle"

SheetIdle ==
    /\ summary = <<>> /\ ws = [cells |-> <<>>, merged |-> {}]
    /\ config = {} /\ sheet_err = ""
    /\ fmt = [databars |-> {}, fill |-> <<>>, fill_cols |-> 0, thick |-> {}]
    /\ sheet_pc = "idle"

ParseIdle ==
    /\ call_fn = "" /\ call_arg = <<>> /\ call_ret = <<>> /\ call_err = ""
    /\ call_local = <<>> /\ call_pc = "idle"

PoolIdle ==
    /\ pool_n = 0 /\ pool_futures = 0 /\ pool_queued = 0 /\ pool_running = 0
    /\ pool_finished = 0 /\ pool_pc = "idle"

StaticIdle ==
    /\ found = <<>> /\ requests = <<>> /\ read_files = {} /\ static_err = ""
    /\ static_pc = "idle"

OthersIdle == PoolIdle /\ StaticIdle

-----------------------------------------------------------------------------
(* Identity normalizer *)

\* parse_specimen_id taking the first field, sample.split("-")[0]
parse_specimen_id_first(sample) ==
    LET parts == Split(sample, "-")
    IN  IF Len(parts) < 2 THEN "IndexError" ELSE parts[1]

\* parse_specimen_id falling back to the whole name when it has one field
parse_specimen_id_lenient(sample) ==
    LET parts == Split(sample, "-")
    IN  IF Len(parts) < 2 THEN parts[1] ELSE parts[2]

\* parse_specimen_id: sample.split("-")[1]; IndexError with fewer than two fields
parse_specimen_id(sample) ==
    LET parts == Split(sample, "-")
    IN  IF Len(parts) < 2 THEN "IndexError" ELSE parts[2]

HasSpecimenField(sample) == Len(Split(sample, "-")) >= 2

\* parse_igv_specimen_name: "-".join(sample.split("-")[:3])
parse_igv_specimen_name(sample) ==
    LET parts == Split(sample, "-")
    IN  JoinStr(SubSeq(parts, 1, IF Len(parts) < 3 THEN Len(parts) ELSE 3), "-")

-----------------------------------------------------------------------------
(* Fusion-name normalizer: extract_fusions (parser.py 48-86) *)

Upper == {"A", "B", "C", "D", "E", "F", "G", "H", "I", "J", "K", "L", "M",
          "N", "O", "P", "Q", "R", "S", "T", "U", "V", "W", "X", "Y", "Z"}
Lower == {"a", "b", "c", "d", "e", "f", "g", "h", "i", "j", "k", "l", "m",
          "n", "o", "p", "q", "r", "s", "t", "u", "v", "w", "x", "y", "z"}
Digit == {"0", "1", "2", "3", "4", "5", "6", "7", "8", "9"}

\* the character of text at position i; no character outside the text
At(text, i) == IF i \in 1..Len(text) THEN text[i] ELSE ""

\* \w, the class [A-Za-z0-9_-] of the pattern, and \s
IsWord(c) == c \in Upper \cup Lower \cup Digit \cup {"_"}
IsSym(c) == IsWord(c) \/ c = "-"
IsSpace(c) == c \in {" ", "\t", "\n"}

\* \b before position i
WordBoundary(text, i) == IsWord(At(text, i - 1)) # IsWord(At(text, i))

StartsWith(text, i, lit) == \A k \in 1..Len(lit) : At(text, i + k - 1) = lit[k]

\* the lookahead NM_|NR_|ENST with ENST left out
TranscriptNoENST(text, i) ==
    \/ StartsWith(text, i, <<"N", "M", "_">>)
    \/ StartsWith(text, i, <<"N", "R", "_">>)

\* what the negative lookahead (?!NM_|NR_|ENST) excludes at position i
Transcript(text, i) ==
    \/ StartsWith(text, i, <<"N", "M", "_">>)
    \/ StartsWith(text, i, <<"N", "R", "_">>)
    \/ StartsWith(text, i, <<"E", "N", "S", "T">>)

\* \s* at position i: the position after the spaces (giving one back never
\* helps, no later part of the pattern starts with a space)
SkipSpaces(text, i) ==
    CHOOSE j \in i..(Len(text) + 1) :
        /\ ~IsSpace(At(text, j))
        /\ \A k \in i..(j - 1) : IsSpace(At(text, k))

\* (?: :: | -- | - ) at position p: the position after the separator, 0 when
\* there is none (after "--" failed, "-" is followed by "-" and fails too)
SepEnd(text, p) ==
    IF StartsWith(text, p, <<":", ":">>) THEN p + 2
    ELSE IF StartsWith(text, p, <<"-", "-">>) THEN p + 2
    ELSE IF StartsWith(text, p, <<"-">>) THEN p + 1
    ELSE 0

\* the positions where [A-Z]{2,}[A-Za-z0-9_-]* started at i can end
GeneEnds(text, i) ==
    {e \in (i + 1)..Len(text) :
        /\ At(text, i) \in Upper /\ At(text, i + 1) \in Upper
        /\ \A k \in i..e : IsSym(At(text, k))}

Max(S) == CHOOSE x \in S : \A y \in S : y <= x
Min(S) == CHOOSE x \in S : \A y \in S : x <= y

\* the second group followed by \b, at position q: its end (greedy: the
\* longest that ends at a word boundary), 0 when it does not match
Group2End(text, q) ==
    LET ends == {f \in GeneEnds(text, q) : WordBoundary(text, f + 1)}
    IN  IF Transcript(text, q) \/ ends = {} THEN 0 ELSE Max(ends)

\* the pattern after a first group ending at e: <<start, end>> of the second
\* group, <<0, 0>> when the rest does not match
RestOfPattern(text, e) ==
    LET s == SepEnd(text, SkipSpaces(text, e + 1))
        q == SkipSpaces(text, s)
    IN  IF s = 0 THEN <<0, 0>> ELSE <<q, Group2End(text, q)>>

\* the match of the pattern that starts at position i (end = 0 when none):
\* the first group is greedy, backtracking shortens it until the rest matches
MatchAt(text, i) ==
    LET ok == {e \in GeneEnds(text, i) : RestOfPattern(text, e)[2] # 0}
    IN  IF ~WordBoundary(text, i) \/ Transcript(text, i) \/ ok = {}
        THEN [g1 |-> <<>>, g2 |-> <<>>, end |-> 0]
        ELSE LET e == Max(ok)
                 r == RestOfPattern(text, e)
             IN  [g1 |-> SubSeq(text, i, e), g2 |-> SubSeq(text, r[1], r[2]),
                  end |-> r[2]]

RECURSIVE FindAll(_, _)
\* re.findall from position i: the groups <<g1, g2>> of the leftmost matches
\* that do not overlap
FindAll(text, i) ==
    IF i > Len(text) THEN <<>>
    ELSE LET mt == MatchAt(text, i)
         IN  IF mt.end = 0 THEN FindAll(text, i + 1)
             ELSE <<<<mt.g1, mt.g2>>>> \o FindAll(text, mt.end + 1)

\* a missing cell (NaN) given as text
NullText == <<NullS>>

\* parser.py 83: matches = re.findall(pattern, text, re.VERBOSE); no match is
\* looked for in an empty or missing text (parser.py 66-67)
Matches(text) ==
    IF text = <<>> \/ text = NullText THEN <<>> ELSE FindAll(text, 1)

\* f"{g1}--{g2}"
FusionName(pair) == JoinStr(pair[1], "") \o "--" \o JoinStr(pair[2], "")

\* extract_fusions: the set of "g1--g2" over the matches (the list is made
\* from a set; its order is not modelled)
extract_fusions(text) ==
    {FusionName(Matches(text)[k]) : k \in 1..Len(Matches(text))}

-----------------------------------------------------------------------------
(* Join engine: make_sf_pivot *)

\* A row of the working frame before any column is derived or merged.
BlankRow ==
    [file_name |-> <<>>, FusionName |-> NullS, LeftBreakpoint |-> NullS,
     RightBreakpoint |-> NullS, JunctionReadCount |-> NullN,
     SpanningFragCount |-> NullN, FFPM |-> NullN, SPECIMEN |-> NullS,
     Filename |-> NullS, ID |-> NullS, LEFTRIGHT |-> NullS,
     Count_predicted |-> NullN, UniqueReadsM |-> NullN,
     DuplicateReadsM |-> NullN, FRAME |-> NullS, PreviousPositives |-> NullS,
     ReferenceSources |-> NullS]

\* defaults.py SF_PIVOT_CONFIG: the group keys and the value columns of the summary
SfPivotConfig ==
    [index  |-> <<"Filename", "SPECIMEN", "UniqueReadsM", "DuplicateReadsM",
                  "LEFTRIGHT">>,
     values |-> {"FFPM", "FRAME", "Count_predicted", "SpanningFragCount",
                 "JunctionReadCount", "FusionName", "LeftBreakpoint",
                 "RightBreakpoint", "ReferenceSources", "PreviousPositives"}]

\* The columns make_sf_pivot selects from the grouped frame before returning
PivotOutCols ==
    {"LeftBreakpoint", "FusionName", "RightBreakpoint", "JunctionReadCount",
     "SpanningFragCount", "Count_predicted", "ReferenceSources",
     "PreviousPositives", "FRAME", "FFPM"}

\* State of the body of make_sf_pivot: the exception raised so far ("" when
\* none), the local frame df and the caller's fi_df object.
Frame(err, df, fi) == [err |-> err, df |-> df, fi |-> fi]

RECURSIVE NullCols(_, _)
\* row l with a missing value in every column of cs
NullCols(l, cs) ==
    IF cs = {} THEN l
    ELSE LET c == CHOOSE x \in cs : TRUE
         IN  [NullCols(l, cs \ {c}) EXCEPT ![c] = NullOf(c)]

RECURSIVE CopyCols(_, _, _, _)
\* row l with every column c of cs set to column copy[c] of row r
CopyCols(l, r, copy, cs) ==
    IF cs = {} THEN l
    ELSE LET c == CHOOSE x \in cs : TRUE
         IN  [CopyCols(l, r, copy, cs \ {c}) EXCEPT ![c] = r[copy[c]]]

\* DataFrame.merge(right, how="left"): every left row in order, once per right
\* row with an equal key (in right order), or once with missing values when no
\* right row matches.  copy maps each column received to the right column it
\* is taken from.  Missing keys compare equal, as in pandas.
LeftMerge(lrows, rrows, lkey, rkey, copy) ==
    LET cs == DOMAIN copy
        one(l) ==
            LET m == SelectSeq(rrows, LAMBDA r : r[rkey] = l[lkey])
            IN  IF m = <<>>
                THEN << NullCols(l, cs) >>
                ELSE Tup([i \in 1..Len(m) |-> CopyCols(l, m[i], copy, cs)])
    IN  Flatten(Tup([i \in 1..Len(lrows) |-> one(lrows[i])]))

\* parser.py 323-332: copy, SPECIMEN, Filename, ID, LEFTRIGHT
DeriveColumns(sf, fi) ==
    LET named == "file_name" \in sf.cols
        cols1 == IF named THEN sf.cols \cup {"SPECIMEN", "Filename"} ELSE sf.cols
    IN  IF named /\ \E i \in 1..Len(sf.rows) : ~HasSpecimenField(sf.rows[i].file_name)
        THEN Frame("IndexError", sf, fi)
        ELSE IF ~({"SPECIMEN", "FusionName"} \subseteq cols1)
        THEN Frame("KeyError", sf, fi)
        ELSE IF ~({"LeftBreakpoint", "RightBreakpoint"} \subseteq cols1)
        THEN Frame("KeyError", sf, fi)
        ELSE
        LET rows == [i \in 1..Len(sf.rows) |->
                LET r  == sf.rows[i]
                    sp == IF named THEN parse_specimen_id(r.file_name) ELSE r.SPECIMEN
                    fn == IF named THEN parse_igv_specimen_name(r.file_name)
                          ELSE r.Filename
                IN  [r EXCEPT !.SPECIMEN = sp, !.Filename = fn,
                        !.ID = StrAdd(StrAdd(sp, "_"), r.FusionName),
                        !.LEFTRIGHT = StrAdd(StrAdd(r.LeftBreakpoint, "_"),
                                             r.RightBreakpoint)]]
        IN  Frame("", Table(cols1 \cup {"ID", "LEFTRIGHT"}, rows), fi)

\* MergeRuns without the fillna(0) of parser.py 340
MergeRunsNoFill(st, runs) ==
    IF st.err # "" \/ IsEmpty(runs) THEN st
    ELSE Frame("",
               Table(st.df.cols \cup {"Count_predicted"},
                     LeftMerge(st.df.rows, runs.rows, "FusionName", "FusionName",
                               [Count_predicted |-> "Count_predicted"])),
               st.fi)

\* parser.py 334-341: historical counts, skipped when sf_runs_df is empty
MergeRuns(st, runs) ==
    IF st.err # "" \/ IsEmpty(runs) THEN st
    ELSE IF ~({"FusionName", "Count_predicted"} \subseteq runs.cols)
    THEN Frame("KeyError", st.df, st.fi)
    ELSE
    LET m == LeftMerge(st.df.rows, runs.rows, "FusionName", "FusionName",
                       [Count_predicted |-> "Count_predicted"])
        filled == [i \in 1..Len(m) |->
                     IF m[i].Count_predicted = NullN
                     THEN [m[i] EXCEPT !.Count_predicted = 0] ELSE m[i]]
    IN  Frame("", Table(st.df.cols \cup {"Count_predicted"}, filled), st.fi)

\* parser.py 343-345: FastQC metrics, skipped when fastqc_pivot_df is empty
MergeFastqc(st, qc) ==
    IF st.err # "" \/ IsEmpty(qc) THEN st
    ELSE IF "SPECIMEN" \notin qc.cols THEN Frame("KeyError", st.df, st.fi)
    ELSE
    LET take == qc.cols \ {"SPECIMEN"}
        m == LeftMerge(st.df.rows, qc.rows, "SPECIMEN", "SPECIMEN",
                       [c \in take |-> c])
    IN  Frame("", Table(st.df.cols \cup take, m), st.fi)

\* MergeFI joining on the fusion name instead of the breakpoint-pair key
MergeFIByName(st, fi) ==
    IF st.err # "" \/ IsEmpty(fi) THEN st
    ELSE Frame("",
               Table(st.df.cols \cup {"FRAME"},
                     LeftMerge(st.df.rows, fi.rows, "FusionName", "FusionName",
                               [FRAME |-> "PROT_FUSION_TYPE"])),
               fi)

\* parser.py 347-352: Fusion Inspector; writes LEFTRIGHT into the caller's fi_df
MergeFI(st, fi) ==
    IF st.err # "" \/ IsEmpty(fi) THEN st
    ELSE IF ~({"LeftBreakpoint", "RightBreakpoint"} \subseteq fi.cols)
    THEN Frame("KeyError", st.df, st.fi)
    ELSE
    LET fi2 == Table(fi.cols \cup {"LEFTRIGHT"},
                   [i \in 1..Len(fi.rows) |->
                      [fi.rows[i] EXCEPT !.LEFTRIGHT =
                          StrAdd(StrAdd(fi.rows[i].LeftBreakpoint, "_"),
                                 fi.rows[i].RightBreakpoint)]])
    IN  IF "PROT_FUSION_TYPE" \notin fi.cols THEN Frame("KeyError", st.df, fi2)
        ELSE Frame("",
                   Table(st.df.cols \cup {"FRAME"},
                         LeftMerge(st.df.rows, fi2.rows, "LEFTRIGHT", "LEFTRIGHT",
                                   [FRAME |-> "PROT_FUSION_TYPE"])),
                   fi2)

\* parser.py 355-360: select, rename, explode the fusion lists, drop missing
ExplodePrevPos(pp) ==
    LET one(r) ==
            IF r.FusionName = <<>>
            THEN <<>>       \* explode gives NaN for an empty list; dropna removes it
            ELSE Tup([k \in 1..Len(r.FusionName) |->
                    [PreviousPositives |-> r.SpecimenIdentifier,
                     FusionName |-> r.FusionName[k]]])
    IN  Flatten(Tup([i \in 1..Len(pp.rows) |-> one(pp.rows[i])]))

\* sorted(x) on text
SortedStr(xs) ==
    LET o == OrderBy(Len(xs), [i \in 1..Len(xs), j \in 1..Len(xs) |->
                                 Rank[xs[i]] < Rank[xs[j]]])
    IN  Tup([p \in 1..Len(xs) |-> xs[o[p]]])

\* parser.py 363: lambda x: ",".join(sorted(x))
JoinSorted(xs) == JoinStr(SortedStr(xs), ",")

\* parser.py 361-365: groupby("#FusionName")["PreviousPositives"].apply(...)
AggPrevPos(ex) ==
    LET keys  == {ex[i].FusionName : i \in 1..Len(ex)}
        names == SelectSeq(StrOrd, LAMBDA s : s \in keys)
        grp(s) == LET g == SelectSeq(ex, LAMBDA r : r.FusionName = s)
                  IN  Tup([i \in 1..Len(g) |-> g[i].PreviousPositives])
    IN  Tup([k \in 1..Len(names) |->
            [FusionName |-> names[k], PreviousPositives |-> JoinSorted(grp(names[k]))]])

\* parser.py 354-367: previous positives, joined on the fusion name
MergePrevPos(st, pp) ==
    IF st.err # "" THEN st
    ELSE IF ~({"SpecimenIdentifier", "FusionName"} \subseteq pp.cols)
    THEN Frame("KeyError", st.df, st.fi)
    ELSE
    LET m == LeftMerge(st.df.rows, AggPrevPos(ExplodePrevPos(pp)),
                       "FusionName", "FusionName",
                       [PreviousPositives |-> "PreviousPositives"])
        filled == [i \in 1..Len(m) |->
                     IF m[i].PreviousPositives = NullS
                     THEN [m[i] EXCEPT !.PreviousPositives = ""] ELSE m[i]]
    IN  Frame("", Table(st.df.cols \cup {"PreviousPositives"}, filled), st.fi)

\* MergeRefSources without the fillna("") of parser.py 375
MergeRefSourcesNoFill(st, ref) ==
    IF st.err # "" THEN st
    ELSE Frame("",
               Table(st.df.cols \cup (ref.cols \ {"Fusion"}),
                     LeftMerge(st.df.rows, ref.rows, "FusionName", "Fusion",
                               [c \in ref.cols \ {"Fusion"} |-> c])),
               st.fi)

\* parser.py 369-375: reference sources, joined on the fusion name
MergeRefSources(st, ref) ==
    IF st.err # "" THEN st
    ELSE IF "Fusion" \notin ref.cols THEN Frame("KeyError", st.df, st.fi)
    ELSE
    LET take == ref.cols \ {"Fusion"}
        m == LeftMerge(st.df.rows, ref.rows, "FusionName", "Fusion",
                       [c \in take |-> c])
        cols2 == st.df.cols \cup take
    IN  IF "ReferenceSources" \notin cols2
        THEN Frame("KeyError", Table(cols2, m), st.fi)
        ELSE Frame("",
                   Table(cols2,
                         [i \in 1..Len(m) |->
                            IF m[i].ReferenceSources = NullS
                            THEN [m[i] EXCEPT !.ReferenceSources = ""] ELSE m[i]]),
                   st.fi)

\* parser.py 378: sort_values(by=["FFPM"], na_position="first").  Rows with a
\* missing FFPM come first in their original order; the others ascend.  The
\* default kind is quicksort, which is not stable: rows with equal FFPM stay
\* in their order (unstable = FALSE) or do not (unstable = TRUE, reversed).
SortByFFPM(st, unstable) ==
    IF st.err # "" THEN st
    ELSE IF "FFPM" \notin st.df.cols THEN Frame("KeyError", st.df, st.fi)
    ELSE
    LET rows == st.df.rows
        n    == Len(rows)
        pos(i) == 1 + Cardinality({j \in 1..n :
                     \/ rows[j].FFPM < rows[i].FFPM
                     \/ /\ rows[j].FFPM = rows[i].FFPM
                        /\ IF unstable /\ rows[i].FFPM # NullN THEN j > i ELSE j < i})
        at == Tup([i \in 1..n |-> pos(i)])
        o == Tup([p \in 1..n |-> CHOOSE i \in 1..n : at[i] = p])
    IN  Frame("", Table(st.df.cols, [p \in 1..n |-> rows[o[p]]]), st.fi)

\* Sort key of a group-key value: missing values last (groupby) or first
\* (sort_values with na_position="first")
KeyVal(c, v, naLast) ==
    IF IsNull(c, v) THEN (IF naLast THEN 1000 ELSE 0 - 1)
    ELSE IF c \in NumCols THEN v ELSE Rank[v]

\* lexicographic order of two rows on the key columns ks
RowLess(a, b, ks, naLast) ==
    \E i \in 1..Len(ks) :
        /\ KeyVal(ks[i], a[ks[i]], naLast) < KeyVal(ks[i], b[ks[i]], naLast)
        /\ \A j \in 1..(i - 1) : a[ks[j]] = b[ks[j]]

SameKey(a, b, ks) == \A i \in 1..Len(ks) : a[ks[i]] = b[ks[i]]

\* GroupBy.first(): per column the first value of the group that is not missing
FirstValid(g, c) ==
    IF \E i \in 1..Len(g) : ~IsNull(c, g[i][c])
    THEN g[CHOOSE i \in 1..Len(g) :
               ~IsNull(c, g[i][c]) /\ \A j \in 1..(i - 1) : IsNull(c, g[j][c])][c]
    ELSE NullOf(c)

\* GroupFirst with groupby's default dropna=True: a group whose key has a
\* missing part is dropped
GroupFirstDropNa(rows, cfg) ==
    LET n == Len(rows)
        ks == cfg.index
        kset == {ks[i] : i \in 1..Len(ks)}
        heads == SelectSeq(Tup([i \in 1..n |-> i]),
                    LAMBDA i : /\ \A j \in 1..(i - 1) : ~SameKey(rows[j], rows[i], ks)
                               /\ \A k \in 1..Len(ks) : ~IsNull(ks[k], rows[i][ks[k]]))
        m == Len(heads)
        go == OrderBy(m, [a \in 1..m, b \in 1..m |->
                            RowLess(rows[heads[a]], rows[heads[b]], ks, TRUE)])
        agg(h) == LET g == SelectSeq(rows, LAMBDA r : SameKey(r, rows[h], ks))
                  IN  [c \in kset \cup cfg.values |->
                         IF c \in kset THEN rows[h][c] ELSE FirstValid(g, c)]
                      @@ <<>>
        grouped == Tup([p \in 1..m |-> agg(heads[go[p]])])
        so == OrderBy(m, [a \in 1..m, b \in 1..m |->
                 RowLess(grouped[a], grouped[b], <<"SPECIMEN", "LEFTRIGHT">>, FALSE)])
    IN  Tup([p \in 1..m |-> grouped[so[p]]])

\* GroupFirst with groupby(..., sort=False) and no final sort_values: the
\* groups in the order of their first rows
GroupFirstUnsorted(rows, cfg) ==
    LET n == Len(rows)
        ks == cfg.index
        kset == {ks[i] : i \in 1..Len(ks)}
        heads == SelectSeq(Tup([i \in 1..n |-> i]),
                    LAMBDA i : \A j \in 1..(i - 1) : ~SameKey(rows[j], rows[i], ks))
        agg(h) == LET g == SelectSeq(rows, LAMBDA r : SameKey(r, rows[h], ks))
                  IN  [c \in kset \cup cfg.values |->
                         IF c \in kset THEN rows[h][c] ELSE FirstValid(g, c)]
    IN  Tup([p \in 1..Len(heads) |-> agg(heads[p])])

\* parser.py 379-383: groupby(index, dropna=False)[values].first(), the groups
\* in key order, then sort_values(by=["SPECIMEN", "LEFTRIGHT"], na_position="first")
GroupFirst(rows, cfg) ==
    LET n == Len(rows)
        ks == cfg.index
        kset == {ks[i] : i \in 1..Len(ks)}
        heads == SelectSeq(Tup([i \in 1..n |-> i]),
                    LAMBDA i : \A j \in 1..(i - 1) : ~SameKey(rows[j], rows[i], ks))
        m == Len(heads)
        go == OrderBy(m, [a \in 1..m, b \in 1..m |->
                            RowLess(rows[heads[a]], rows[heads[b]], ks, TRUE)])
        agg(h) == LET g == SelectSeq(rows, LAMBDA r : SameKey(r, rows[h], ks))
                  IN  [c \in kset \cup cfg.values |->
                         IF c \in kset THEN rows[h][c] ELSE FirstValid(g, c)]
                      @@ <<>>
        grouped == Tup([p \in 1..m |-> agg(heads[go[p]])])
        so == OrderBy(m, [a \in 1..m, b \in 1..m |->
                 RowLess(grouped[a], grouped[b], <<"SPECIMEN", "LEFTRIGHT">>, FALSE)])
    IN  Tup([p \in 1..m |-> grouped[so[p]]])

\* parser.py 377-400: the final pivot and its column selection
Pivot(st, cfg) ==
    LET ks == {cfg.index[i] : i \in 1..Len(cfg.index)}
    IN  IF st.err # "" THEN [err |-> st.err, df |-> st.df, fi |-> st.fi,
                             out |-> Table({}, <<>>)]
        ELSE IF ~(ks \cup cfg.values \subseteq st.df.cols)
                \/ ~({"SPECIMEN", "LEFTRIGHT"} \subseteq ks \cup cfg.values)
                \/ ~(PivotOutCols \subseteq cfg.values)
        THEN [err |-> "KeyError", df |-> st.df, fi |-> st.fi, out |-> Table({}, <<>>)]
        ELSE [err |-> "", df |-> st.df, fi |-> st.fi,
              out |-> Table(ks \cup PivotOutCols,
                        LET g == GroupFirst(st.df.rows, cfg)
                        IN  [i \in 1..Len(g) |->
                               [c \in ks \cup PivotOutCols |-> g[i][c]]])]

\* parser.py 323-375: the working frame after the derived columns and the joins
JoinAll(sf, runs, qc, fi, pp, ref) ==
    LET s1 == DeriveColumns(sf, fi)
        s2 == MergeRuns(s1, runs)
        s3 == MergeFastqc(s2, qc)
        s4 == MergeFI(s3, fi)
        s5 == MergePrevPos(s4, pp)
    IN  MergeRefSources(s5, ref)

\* The outcomes of the unstable sort: one when no two rows share an FFPM
TieBreaks(st) ==
    IF st.err = "" /\ "FFPM" \in st.df.cols
       /\ \E i, j \in 1..Len(st.df.rows) :
             i < j /\ st.df.rows[i].FFPM # NullN
                   /\ st.df.rows[i].FFPM = st.df.rows[j].FFPM
    THEN BOOLEAN ELSE {FALSE}

\* make_sf_pivot (parser.py 289-400): the results the call can have, one for
\* each way the unstable sort on FFPM can leave rows of equal FFPM.
make_sf_pivot(sf, runs, qc, fi, pp, ref, cfg) ==
    LET j == JoinAll(sf, runs, qc, fi, pp, ref)
    IN  {Pivot(SortByFFPM(j, unstable), cfg) : unstable \in TieBreaks(j)}

-----------------------------------------------------------------------------
(* The inputs make_sf_pivot is called with *)

MaxTotalRows == 6                    \* rows of all input tables of one call together
MaxTableRows == MaxTotalRows \div 3  \* rows of one input table

\* names of STAR-Fusion output files, as character sequences
FileS1 == <<"R", "U", "N", "-", "S", "P", "E", "C", "1", "-",
            "P", "A", "N", "E", "L", "_", "x">>
FileS2 == <<"R", "U", "N", "-", "S", "P", "E", "C", "2", "-",
            "P", "A", "N", "E", "L", "_", "x">>

SeqsUpTo(D, n) == UNION {[1..k -> D] : k \in 0..n}

\* columns of a STAR-Fusion table read by read_dxfile (file_name first)
SfCols == {"file_name", "FusionName", "JunctionReadCount", "SpanningFragCount",
           "LeftBreakpoint", "RightBreakpoint", "FFPM"}

SfRows ==
    {r \in {[BlankRow EXCEPT !.file_name = f, !.FusionName = fu,
                 !.LeftBreakpoint = "chr1:100", !.RightBreakpoint = "chr2:200",
                 !.JunctionReadCount = IF fu = "A--B" THEN 10 ELSE 7,
                 !.SpanningFragCount = 5, !.FFPM = a] :
              f \in {FileS1, FileS2}, fu \in {"A--B", "C--D"}, a \in {NullN, 1, 2}} :
        r.file_name = FileS1 \/ (r.FusionName = "A--B" /\ r.FFPM = 1)}

\* parse_star_fusion: pd.DataFrame() for no readable file, else the rows read
SfTables == {Table({}, <<>>)} \cup {Table(SfCols, r) : r \in SeqsUpTo(SfRows, MaxTableRows)}

\* parse_sf_previous: the two columns, duplicate rows dropped
RunsRows == {[FusionName |-> "A--B", Count_predicted |-> 3]}
RunsTables ==
    {Table({"FusionName", "Count_predicted"}, r) :
        r \in {q \in SeqsUpTo(RunsRows, MaxTableRows) :
                 \A i, j \in 1..Len(q) : q[i] = q[j] => i = j}}

\* make_fastqc_pivot: one row per specimen
FastqcTables ==
    {Table({"SPECIMEN", "DuplicateReadsM", "UniqueReadsM"}, r) :
        r \in {<<>>, <<[SPECIMEN |-> "SPEC1", DuplicateReadsM |-> 2, UniqueReadsM |-> 3]>>}}

FiFile == "RUN-SPEC1-PANEL_FusionInspector.fusions.abridged.merged.tsv"
FiRows ==
    {[file_name |-> FiFile, FusionName |-> "C--D", LeftBreakpoint |-> "chr1:100",
      RightBreakpoint |-> "chr2:200", PROT_FUSION_TYPE |-> "INFRAME",
      LEFTRIGHT |-> NullS],
     [file_name |-> FiFile, FusionName |-> "A--B", LeftBreakpoint |-> "chr1:100",
      RightBreakpoint |-> "chr2:200", PROT_FUSION_TYPE |-> "FRAMESHIFT",
      LEFTRIGHT |-> NullS],
     [file_name |-> FiFile, FusionName |-> "A--B", LeftBreakpoint |-> "chr1:300",
      RightBreakpoint |-> "chr2:200", PROT_FUSION_TYPE |-> "FRAMESHIFT",
      LEFTRIGHT |-> NullS]}
FiCols == {"file_name", "FusionName", "LeftBreakpoint", "RightBreakpoint",
           "PROT_FUSION_TYPE"}
FiTables == {Table(FiCols, r) : r \in SeqsUpTo(FiRows, MaxTableRows)}

\* parse_prev_pos: the registry with the list of fusions found in each result
PrevPosRows ==
    {[SpecimenIdentifier |-> "SP1", FusionName |-> <<"A--B">>],
     [SpecimenIdentifier |-> "SP2", FusionName |-> <<"A--B">>],
     [SpecimenIdentifier |-> "SP1", FusionName |-> <<>>]}
PrevPosTables ==
    {Table({"SpecimenIdentifier", "TestResult", "FusionName"}, r) :
        r \in SeqsUpTo(PrevPosRows, MaxTableRows)}

\* ReferenceSources.tsv: one row per fusion
RefTables ==
    {Table({"Fusion", "ReferenceSources"}, r) :
        r \in {<<>>, <<[Fusion |-> "A--B", ReferenceSources |-> "DB1"]>>}}

NoResult == Table({}, <<>>)

PivotInit ==
    /\ sf_df \in SfTables
    /\ sf_runs_df \in RunsTables
    /\ Len(sf_df.rows) + Len(sf_runs_df.rows) <= MaxTotalRows
    /\ fastqc_pivot_df \in FastqcTables
    /\ fi_df \in FiTables
    /\ Len(sf_df.rows) + Len(sf_runs_df.rows) + Len(fastqc_pivot_df.rows)
         + Len(fi_df.rows) <= MaxTotalRows
    /\ prev_pos \in PrevPosTables
    /\ ref_sources \in RefTables
    /\ Len(sf_df.rows) + Len(sf_runs_df.rows) + Len(fastqc_pivot_df.rows)
         + Len(fi_df.rows) + Len(prev_pos.rows) + Len(ref_sources.rows)
         <= MaxTotalRows
    /\ joined = NoResult
    /\ pivot_df = NoResult
    /\ pivot_err = ""
    /\ pivot_pc = "call"
    /\ ReadIdle
    /\ SheetIdle
    /\ ParseIdle
    /\ OthersIdle

\* main (generate_fusion_workbook.py 138-146) calls make_sf_pivot
MakeSfPivot ==
    /\ pivot_pc = "call"
    /\ \E r \in make_sf_pivot(sf_df, sf_runs_df, fastqc_pivot_df, fi_df,
                              prev_pos, ref_sources, SfPivotConfig) :
             /\ joined' = r.df
             /\ pivot_df' = r.out
             /\ pivot_err' = r.err
             /\ fi_df' = r.fi
    /\ pivot_pc' = "done"
    /\ UNCHANGED <<sf_df, sf_runs_df, fastqc_pivot_df, prev_pos, ref_sources>>
    /\ UNCHANGED <<read_vars, sheet_vars, parse_vars, other_vars>>

PivotNext == MakeSfPivot

SpecPivot == PivotInit /\ [][PivotNext]_vars

-----------------------------------------------------------------------------
(* The workbook formulas of defaults.py SF_SHEET_CONFIG, evaluated for the    *)
(* sheet row of an observation r                                              *)

\* a cell read by a text function: a blank cell reads as the empty text
CellText(v) == IF v = NullS THEN "" ELSE v

\* VLOOKUP(key, range, col, 0) over the key column keys and the value column
\* values of the range: the value in the first row whose key equals key; #N/A
\* (found = FALSE) when no row does
VLookup(key, keys, values) ==
    IF \E i \in 1..Len(keys) : keys[i] = key
    THEN [found |-> TRUE,
          value |-> values[CHOOSE i \in 1..Len(keys) :
                             /\ keys[i] = key
                             /\ \A j \in 1..(i - 1) : keys[j] # key]]
    ELSE [found |-> FALSE, value |-> NullS]

\* defaults.py 27: LEFTRIGHT  =CONCATENATE(S{row},"_",U{row})
SheetLEFTRIGHT(r) == CellText(r.LeftBreakpoint) \o "_" \o CellText(r.RightBreakpoint)

\* defaults.py 21: Count_predicted  =VLOOKUP(L{row},'SF_Previous_Runs'!A:B,2,0)
SheetCountPredicted(r, runs) ==
    VLookup(r.FusionName,
            [i \in 1..Len(runs.rows) |-> runs.rows[i].FusionName],
            [i \in 1..Len(runs.rows) |-> runs.rows[i].Count_predicted])

\* defaults.py 28: FRAME  =VLOOKUP(I{row},'Fusion_Inspector'!C:AM,32,0), where
\* column C of Fusion_Inspector is =CONCATENATE(L{row},"_",O{row}) (defaults.py 39)
SheetFRAME(r, fi) ==
    VLookup(SheetLEFTRIGHT(r),
            [i \in 1..Len(fi.rows) |->
               CellText(fi.rows[i].LeftBreakpoint) \o "_"
               \o CellText(fi.rows[i].RightBreakpoint)],
            [i \in 1..Len(fi.rows) |-> fi.rows[i].PROT_FUSION_TYPE])

-----------------------------------------------------------------------------
(* Properties of make_sf_pivot *)

PivotDone == pivot_pc = "done"
PivotOk == PivotDone /\ pivot_err = ""

InRuns(fu) == \E k \in 1..Len(sf_runs_df.rows) : sf_runs_df.rows[k].FusionName = fu

\* the labels the prior-positive registry holds for fusion fu
LabelsOf(fu) ==
    {prev_pos.rows[i].SpecimenIdentifier :
        i \in {k \in 1..Len(prev_pos.rows) :
                 \E n \in 1..Len(prev_pos.rows[k].FusionName) :
                     prev_pos.rows[k].FusionName[n] = fu}}

InRef(fu) == \E k \in 1..Len(ref_sources.rows) : ref_sources.rows[k].Fusion = fu

\* the breakpoint-pair key of a row
PairKey(r) == StrAdd(StrAdd(r.LeftBreakpoint, "_"), r.RightBreakpoint)

\* the rows of the joined table in the group of summary row r
GroupOf(r) == SelectSeq(joined.rows, LAMBDA q : SameKey(q, r, SfPivotConfig.index))

\* C2: in the end-to-end scenario (one predictor row A--B of specimen SPEC1, empty
\* historical, annotation and prior-positive tables, reference A--B -> DB1)
\* make_sf_pivot completes and the summary row of SPEC1 has Count_predicted 0,
\* PreviousPositives "" and ReferenceSources "DB1".
C2_EndToEndScenario ==
    (/\ PivotDone
     /\ Len(sf_df.rows) = 1
     /\ sf_df.rows[1].file_name = FileS1
     /\ sf_df.rows[1].FusionName = "A--B"
     /\ sf_runs_df.rows = <<>>
     /\ fi_df.rows = <<>>
     /\ prev_pos.rows = <<>>
     /\ ref_sources.rows = <<[Fusion |-> "A--B", ReferenceSources |-> "DB1"]>>)
    => /\ pivot_err = ""
       /\ \E i \in 1..Len(pivot_df.rows) :
            /\ pivot_df.rows[i].SPECIMEN = "SPEC1"
            /\ pivot_df.rows[i].Count_predicted = 0
            /\ pivot_df.rows[i].PreviousPositives = ""
            /\ pivot_df.rows[i].ReferenceSources = "DB1"

\* C3: for every observation of the joined table, each workbook formula that
\* mirrors a join (LEFTRIGHT, Count_predicted, FRAME) evaluates to the value the
\* joined table holds, wherever the formula finds a value and the joined value
\* is not missing.
C3_FormulaEqualsJoin ==
    PivotDone =>
      \A i \in 1..Len(joined.rows) :
        LET r == joined.rows[i]
        IN  /\ ("LEFTRIGHT" \in joined.cols /\ r.LEFTRIGHT # NullS)
                 => SheetLEFTRIGHT(r) = r.LEFTRIGHT
            /\ ("Count_predicted" \in joined.cols
                  /\ SheetCountPredicted(r, sf_runs_df).found)
                 => SheetCountPredicted(r, sf_runs_df).value = r.Count_predicted
            /\ ("FRAME" \in joined.cols /\ r.FRAME # NullS
                  /\ SheetFRAME(r, fi_df).found)
                 => SheetFRAME(r, fi_df).value = r.FRAME

\* C4: when the historical, QC or annotation table has no rows, make_sf_pivot
\* still completes and the joined table keeps every predictor row with its
\* original values.
C4_EmptyOptionalInputCompletes ==
    (/\ PivotDone
     /\ sf_df.rows # <<>>
     /\ \/ sf_runs_df.rows = <<>>
        \/ fastqc_pivot_df.rows = <<>>
        \/ fi_df.rows = <<>>)
    => /\ pivot_err = ""
       /\ Len(joined.rows) = Len(sf_df.rows)
       /\ \A i \in 1..Len(sf_df.rows) :
            \A c \in SfCols : joined.rows[i][c] = sf_df.rows[i][c]

\* C5: with a non-empty historical table every row of the joined table whose
\* fusion is in the historical table carries that table's Count_predicted,
\* every other row carries 0, and Count_predicted is never missing, in the
\* joined table and in the summary.
C5_HistoricalCountJoin ==
    (PivotDone /\ sf_df.cols # {} /\ sf_runs_df.rows # <<>>)
    => /\ "Count_predicted" \in joined.cols
       /\ Len(joined.rows) >= Len(sf_df.rows)
       /\ \A i \in 1..Len(joined.rows) :
            LET r == joined.rows[i]
            IN  /\ r.Count_predicted # NullN
                /\ InRuns(r.FusionName) =>
                     \E k \in 1..Len(sf_runs_df.rows) :
                        /\ sf_runs_df.rows[k].FusionName = r.FusionName
                        /\ sf_runs_df.rows[k].Count_predicted = r.Count_predicted
                /\ ~InRuns(r.FusionName) => r.Count_predicted = 0
       /\ pivot_err = "" =>
            \A i \in 1..Len(pivot_df.rows) : pivot_df.rows[i].Count_predicted # NullN

C5_Witness ==
    /\ PivotOk
    /\ \E i \in 1..Len(pivot_df.rows) :
         pivot_df.rows[i].FusionName = "C--D" /\ pivot_df.rows[i].Count_predicted = 0
    /\ \E i \in 1..Len(pivot_df.rows) :
         pivot_df.rows[i].FusionName = "A--B" /\ pivot_df.rows[i].Count_predicted = 3

\* C6: in every summary row PreviousPositives and ReferenceSources are never
\* missing, they are the empty string when the row's fusion has no entry in the
\* registry, and whatever the registries hold make_sf_pivot raises nothing once
\* the predictor, historical, QC and annotation tables have rows.
C6_RegistryStringsNeverNull ==
    /\ PivotOk =>
         \A i \in 1..Len(pivot_df.rows) :
            LET r == pivot_df.rows[i]
            IN  /\ r.PreviousPositives # NullS
                /\ r.ReferenceSources # NullS
                /\ LabelsOf(r.FusionName) = {} => r.PreviousPositives = ""
                /\ ~InRef(r.FusionName) => r.ReferenceSources = ""
    /\ (/\ PivotDone
        /\ sf_df.cols # {}
        /\ sf_runs_df.rows # <<>>
        /\ fastqc_pivot_df.rows # <<>>
        /\ fi_df.rows # <<>>) => pivot_err = ""

C6_Witness ==
    /\ PivotOk
    /\ prev_pos.rows # <<>>
    /\ \E i \in 1..Len(pivot_df.rows) :
         /\ LabelsOf(pivot_df.rows[i].FusionName) = {}
         /\ ~InRef(pivot_df.rows[i].FusionName)
         /\ pivot_df.rows[i].PreviousPositives = ""
         /\ pivot_df.rows[i].ReferenceSources = ""
    /\ \E i \in 1..Len(pivot_df.rows) : pivot_df.rows[i].PreviousPositives = "SP1"

\* C7: the PreviousPositives string of every joined row is the comma-joined
\* list, in ascending order and without repetition, of the labels the registry
\* holds for the row's fusion.
C7_LabelsSortedNoDuplicates ==
    (PivotDone /\ "PreviousPositives" \in joined.cols) =>
      \A i \in 1..Len(joined.rows) :
         joined.rows[i].PreviousPositives =
            JoinStr(SelectSeq(StrOrd,
                      LAMBDA s : s \in LabelsOf(joined.rows[i].FusionName)), ",")

\* C8: the FRAME of a summary row is the PROT_FUSION_TYPE of an annotation row
\* with the row's breakpoint-pair key, and is missing when no annotation row
\* has that key, whatever the fusion names are.
C8_FrameByBreakpointPair ==
    PivotOk =>
      \A i \in 1..Len(pivot_df.rows) :
        LET r == pivot_df.rows[i]
            hits == {k \in 1..Len(fi_df.rows) : PairKey(fi_df.rows[k]) = PairKey(r)}
        IN  IF hits = {} THEN r.FRAME = NullS
            ELSE \E k \in hits : r.FRAME = fi_df.rows[k].PROT_FUSION_TYPE

C8_Witness ==
    /\ PivotOk
    /\ \E i \in 1..Len(pivot_df.rows), k \in 1..Len(fi_df.rows) :
         /\ PairKey(fi_df.rows[k]) = PairKey(pivot_df.rows[i])
         /\ fi_df.rows[k].FusionName # pivot_df.rows[i].FusionName
         /\ pivot_df.rows[i].FRAME = fi_df.rows[k].PROT_FUSION_TYPE
         /\ \A n \in 1..Len(fi_df.rows) :
              fi_df.rows[n].FusionName # pivot_df.rows[i].FusionName

C8_WitnessNoKey ==
    /\ PivotOk
    /\ \E i \in 1..Len(pivot_df.rows) :
         /\ pivot_df.rows[i].FRAME = NullS
         /\ \E k \in 1..Len(fi_df.rows) :
              fi_df.rows[k].FusionName = pivot_df.rows[i].FusionName

\* C9: the joined table is sorted by FFPM ascending with missing values first,
\* and every summary row holds, in every value column, the value of the first
\* row of its group in that order.
C9_FirstRowOfGroup ==
    PivotOk =>
      /\ \A i, j \in 1..Len(joined.rows) :
           i < j => \/ joined.rows[i].FFPM = NullN
                    \/ /\ joined.rows[j].FFPM # NullN
                       /\ joined.rows[i].FFPM <= joined.rows[j].FFPM
      /\ \A i \in 1..Len(pivot_df.rows) :
           \A c \in PivotOutCols :
              pivot_df.rows[i][c] = GroupOf(pivot_df.rows[i])[1][c]

\* C20: the sort by FFPM followed by group-first, applied to the summary it
\* produced, gives that summary again, however the sort leaves equal FFPM, and
\* the summary has a single row per group.
C20_SortGroupFirstIdempotent ==
    PivotOk =>
        /\ \A unstable \in BOOLEAN :
              LET again == Pivot(SortByFFPM(Frame("", pivot_df, fi_df), unstable),
                                 SfPivotConfig)
              IN  again.err = "" /\ again.out = pivot_df
        /\ \A i, j \in 1..Len(pivot_df.rows) :
              SameKey(pivot_df.rows[i], pivot_df.rows[j], SfPivotConfig.index)
                  => i = j

C20_Witness ==
    /\ PivotOk
    /\ Len(pivot_df.rows) = 2
    /\ Len(joined.rows) > 2
    /\ pivot_df.rows[1].FFPM = pivot_df.rows[2].FFPM
    /\ pivot_df.rows[1].FFPM # NullN

\* the summary make_sf_pivot returns is in ascending order of SPECIMEN, so the
\* rows of a specimen follow each other (the order the presentation passes of
\* C21 rely on)
C21_SummarySortedBySpecimen ==
    PivotOk =>
        \A i, j \in 1..Len(pivot_df.rows) :
            i < j => Rank[pivot_df.rows[i].SPECIMEN] <= Rank[pivot_df.rows[j].SPECIMEN]

\* C22: make_sf_pivot leaves every table it is given unchanged: after the call
\* the caller's six input tables have the columns and rows they had before it
C22_InputsUnchanged ==
    [][MakeSfPivot =>
          /\ sf_df' = sf_df
          /\ sf_runs_df' = sf_runs_df
          /\ fastqc_pivot_df' = fastqc_pivot_df
          /\ fi_df' = fi_df
          /\ prev_pos' = prev_pos
          /\ ref_sources' = ref_sources]_vars

\* the group key of a predictor row: display name and specimen of its file,
\* the QC metrics of the specimen (missing when the QC pivot has none), and
\* the breakpoint pair
PredictorKey(r) ==
    LET sp == parse_specimen_id(r.file_name)
        qc == {k \in 1..Len(fastqc_pivot_df.rows) : fastqc_pivot_df.rows[k].SPECIMEN = sp}
    IN  [Filename |-> parse_igv_specimen_name(r.file_name),
         SPECIMEN |-> sp,
         UniqueReadsM |-> IF qc = {} THEN NullN
                          ELSE fastqc_pivot_df.rows[CHOOSE k \in qc : TRUE].UniqueReadsM,
         DuplicateReadsM |-> IF qc = {} THEN NullN
                             ELSE fastqc_pivot_df.rows[CHOOSE k \in qc : TRUE].DuplicateReadsM,
         LEFTRIGHT |-> PairKey(r)]

SummaryKey(r) ==
    [Filename |-> r.Filename, SPECIMEN |-> r.SPECIMEN, UniqueReadsM |-> r.UniqueReadsM,
     DuplicateReadsM |-> r.DuplicateReadsM, LEFTRIGHT |-> r.LEFTRIGHT]

\* C28: the group keys of the summary rows are exactly the group keys of the
\* predictor rows, each once, keys with missing parts included, however many
\* rows of the historical, annotation, prior-positive and reference tables
\* match a predictor row.
C28_OneRowPerGroupKey ==
    PivotOk =>
        /\ {SummaryKey(pivot_df.rows[i]) : i \in 1..Len(pivot_df.rows)}
              = {PredictorKey(sf_df.rows[k]) : k \in 1..Len(sf_df.rows)}
        /\ \A i, j \in 1..Len(pivot_df.rows) :
              SummaryKey(pivot_df.rows[i]) = SummaryKey(pivot_df.rows[j]) => i = j

C28_Witness ==
    /\ PivotOk
    /\ Len(sf_df.rows) = 2
    /\ Len(joined.rows) > 2
    /\ Len(pivot_df.rows) = 2
    /\ pivot_df.rows[1].SPECIMEN = "SPEC1" /\ pivot_df.rows[1].UniqueReadsM = 3
    /\ pivot_df.rows[2].SPECIMEN = "SPEC2" /\ pivot_df.rows[2].UniqueReadsM = NullN

-----------------------------------------------------------------------------
(* Concurrent reader: _parse_fusion_files (parser.py 184-219) *)

MaxFiles == 3     \* files of one call

\* dxfile.name of the i-th file, as its characters: s1_a, s1_b, s2_a, ...
FileName(i) ==
    <<"s", ToString((i + 1) \div 2), "_", IF i % 2 = 1 THEN "a" ELSE "b">>

\* the data lines of the i-th file, in file order
FileRows(i) ==
    IF i = 1
    THEN <<[JunctionReadCount |-> 2, SpanningFragCount |-> 1]>>
    ELSE IF i = 2
    THEN <<[JunctionReadCount |-> 2, SpanningFragCount |-> 1],
           [JunctionReadCount |-> 1, SpanningFragCount |-> 2]>>
    ELSE <<>>

\* a file object: its name, the columns of its header line, its data lines
DXFile(name, cols, rows) == [name |-> name, cols |-> cols, rows |-> rows]

\* the files a call can be given
Files ==
    {DXFile(FileName(i), {"JunctionReadCount", "SpanningFragCount"}, FileRows(i)) :
        i \in 1..MaxFiles}

\* pd.read_csv(dxfile, sep=sep): the header's columns and the data lines
read_csv(f) == Table(f.cols, f.rows)

\* df.insert(0, "file_name", fname): the same value in every existing row
InsertFileName(df, fname) ==
    Table(df.cols \cup {"file_name"},
          [k \in 1..Len(df.rows) |->
              [c \in df.cols \cup {"file_name"} |->
                  IF c = "file_name" THEN fname ELSE df.rows[k][c]]])

\* read_dxfile (utils.py 15-41): the parsed file, with the file's name as the
\* first column when include_fname
read_dxfile(f, include_fname) ==
    IF include_fname THEN InsertFileName(read_csv(f), f.name) ELSE read_csv(f)

\* pd.concat(results): the tables one after the other
concat(tables) ==
    Table(UNION {tables[i].cols : i \in 1..Len(tables)},
          Flatten(Tup([i \in 1..Len(tables) |-> tables[i].rows])))

\* parser.py 203: max_workers = min(16, len(dxfiles))
max_workers == IF Len(dxfiles) < 16 THEN Len(dxfiles) ELSE 16

Running == {i \in 1..Len(dxfiles) : task[i] = "running"}

ReadInit ==
    /\ dxfiles \in {q \in SeqsUpTo(Files, MaxFiles) :
                      \A i, j \in 1..Len(q) : q[i] = q[j] => i = j}
    /\ futures = 0
    /\ task = [i \in 1..Len(dxfiles) |-> "new"]
    /\ attempts = [i \in 1..Len(dxfiles) |-> 0]
    /\ completed = <<>>
    /\ results = <<>>
    /\ next_future = 1
    /\ read_out = Table({}, <<>>)
    /\ read_pc = "call"
    /\ reader \in {"parse_star_fusion", "parse_fusion_inspector"}
    /\ reader_out = Table({}, <<>>)
    /\ reader_err = ""
    /\ reader_pc = "call"
    /\ PivotIdle
    /\ SheetIdle
    /\ ParseIdle
    /\ OthersIdle

\* parser.py 200-201: no file, an empty table
ReturnNoFiles ==
    /\ read_pc = "call"
    /\ dxfiles = <<>>
    /\ read_out' = Table({}, <<>>)
    /\ read_pc' = "returned"
    /\ UNCHANGED <<dxfiles, futures, task, attempts, results, next_future>>
    /\ UNCHANGED <<reader, reader_out, reader_err, reader_pc>>
    /\ UNCHANGED completed
    /\ UNCHANGED <<pivot_vars, sheet_vars, parse_vars, other_vars>>

\* parser.py 205: executor.submit(read_dxfile, dxfile), one file after the other
Submit ==
    /\ read_pc \in {"call", "submit"}
    /\ futures < Len(dxfiles)
    /\ futures' = futures + 1
    /\ task' = [task EXCEPT ![futures + 1] = "queued"]
    /\ read_pc' = IF futures + 1 = Len(dxfiles) THEN "collect" ELSE "submit"
    /\ UNCHANGED <<dxfiles, attempts, results, next_future, read_out>>
    /\ UNCHANGED <<reader, reader_out, reader_err, reader_pc>>
    /\ UNCHANGED completed
    /\ UNCHANGED <<pivot_vars, sheet_vars, parse_vars, other_vars>>

\* a worker thread of the pool takes the oldest queued task
WorkerStart ==
    /\ \E i \in 1..Len(dxfiles) :
         /\ task[i] = "queued"
         /\ \A j \in 1..(i - 1) : task[j] # "queued"
         /\ Cardinality(Running) < max_workers
         /\ task' = [task EXCEPT ![i] = "running"]
         /\ attempts' = [attempts EXCEPT ![i] = @ + 1]
    /\ UNCHANGED <<dxfiles, futures, results, next_future, read_out, read_pc>>
    /\ UNCHANGED <<reader, reader_out, reader_err, reader_pc>>
    /\ UNCHANGED completed
    /\ UNCHANGED <<pivot_vars, sheet_vars, parse_vars, other_vars>>

\* read_dxfile returns in the worker, or raises: the future keeps the outcome
WorkerFinish ==
    /\ \E i \in Running, outcome \in {"ok", "raised"} :
         /\ task' = [task EXCEPT ![i] = outcome]
         /\ completed' = Append(completed, i)
    /\ UNCHANGED <<dxfiles, futures, attempts, results, next_future, read_out,
                   read_pc>>
    /\ UNCHANGED <<reader, reader_out, reader_err, reader_pc>>
    /\ UNCHANGED <<pivot_vars, sheet_vars, parse_vars, other_vars>>

\* Collect taking the futures as they complete (as_completed) instead of in
\* the order of the list futures
CollectAsCompleted ==
    /\ read_pc = "collect"
    /\ next_future <= Len(dxfiles)
    /\ next_future <= Len(completed)
    /\ results' = IF task[completed[next_future]] = "ok"
                  THEN Append(results,
                              read_dxfile(dxfiles[completed[next_future]], TRUE))
                  ELSE results
    /\ next_future' = next_future + 1
    /\ UNCHANGED <<dxfiles, futures, task, attempts, read_out, read_pc>>
    /\ UNCHANGED <<reader, reader_out, reader_err, reader_pc>>
    /\ UNCHANGED completed
    /\ UNCHANGED <<pivot_vars, sheet_vars, parse_vars, other_vars>>

\* Collect re-raising the exception of a failed read
CollectNoExcept ==
    /\ read_pc = "collect"
    /\ next_future <= Len(dxfiles)
    /\ task[next_future] \in {"ok", "raised"}
    /\ IF task[next_future] = "ok"
       THEN /\ results' = Append(results, read_dxfile(dxfiles[next_future], TRUE))
            /\ next_future' = next_future + 1
            /\ read_pc' = read_pc
       ELSE /\ read_pc' = "raised"
            /\ UNCHANGED <<results, next_future>>
    /\ UNCHANGED <<dxfiles, futures, task, attempts, read_out>>
    /\ UNCHANGED <<reader, reader_out, reader_err, reader_pc>>
    /\ UNCHANGED completed
    /\ UNCHANGED <<pivot_vars, sheet_vars, parse_vars, other_vars>>

\* parser.py 207-212: future.result() of the next future, in the order of
\* dxfiles; the table is appended, an exception is printed and dropped
Collect ==
    /\ read_pc = "collect"
    /\ next_future <= Len(dxfiles)
    /\ task[next_future] \in {"ok", "raised"}
    /\ results' = IF task[next_future] = "ok"
                  THEN Append(results, read_dxfile(dxfiles[next_future], TRUE))
                  ELSE results
    /\ next_future' = next_future + 1
    /\ UNCHANGED <<dxfiles, futures, task, attempts, read_out, read_pc>>
    /\ UNCHANGED <<reader, reader_out, reader_err, reader_pc>>
    /\ UNCHANGED completed
    /\ UNCHANGED <<pivot_vars, sheet_vars, parse_vars, other_vars>>

\* ReturnConcat leaving the loop over the futures before its end
ReturnConcatEarly ==
    /\ read_pc = "collect"
    /\ read_out' = IF results = <<>> THEN Table({}, <<>>) ELSE concat(results)
    /\ read_pc' = "returned"
    /\ UNCHANGED <<dxfiles, futures, task, attempts, results, next_future>>
    /\ UNCHANGED <<reader, reader_out, reader_err, reader_pc>>
    /\ UNCHANGED completed
    /\ UNCHANGED <<pivot_vars, sheet_vars, parse_vars, other_vars>>

\* ReturnConcat without the test "if not results": pd.concat([]) raises
\* ValueError (No objects to concatenate)
ReturnConcatNoGuard ==
    /\ read_pc = "collect"
    /\ next_future > Len(dxfiles)
    /\ IF results = <<>>
       THEN read_pc' = "raised" /\ UNCHANGED read_out
       ELSE read_out' = concat(results) /\ read_pc' = "returned"
    /\ UNCHANGED <<dxfiles, futures, task, attempts, results, next_future>>
    /\ UNCHANGED <<reader, reader_out, reader_err, reader_pc>>
    /\ UNCHANGED completed
    /\ UNCHANGED <<pivot_vars, sheet_vars, parse_vars, other_vars>>

\* parser.py 214-219: an empty table when nothing was read, else the concatenation
ReturnConcat ==
    /\ read_pc = "collect"
    /\ next_future > Len(dxfiles)
    /\ read_out' = IF results = <<>> THEN Table({}, <<>>) ELSE concat(results)
    /\ read_pc' = "returned"
    /\ UNCHANGED <<dxfiles, futures, task, attempts, results, next_future>>
    /\ UNCHANGED <<reader, reader_out, reader_err, reader_pc>>
    /\ UNCHANGED completed
    /\ UNCHANGED <<pivot_vars, sheet_vars, parse_vars, other_vars>>

\* parser.py 250-266: parse_star_fusion returns what _parse_fusion_files returned
ParseStarFusion ==
    /\ reader = "parse_star_fusion"
    /\ reader_pc = "call"
    /\ read_pc = "returned"
    /\ reader_out' = read_out
    /\ reader_pc' = "done"
    /\ UNCHANGED <<dxfiles, futures, task, attempts, results, next_future,
                   read_out, read_pc, reader, reader_err>>
    /\ UNCHANGED completed
    /\ UNCHANGED <<pivot_vars, sheet_vars, parse_vars, other_vars>>

\* parser.py 238-241: the text of file_name before its first "_", then the
\* Fusion Inspector suffix
RenameFile(name) ==
    Split(name, "_")[1] \o "_FusionInspector.fusions.abridged.merged.tsv"

\* DataFrame.drop_duplicates(): a row equal to an earlier row is dropped
drop_duplicates(rows) ==
    SelectSeq(Tup([i \in 1..Len(rows) |-> i]),
              LAMBDA i : \A j \in 1..(i - 1) : rows[j] # rows[i])

\* parser.py 237-247 on the table df returned by _parse_fusion_files:
\* df["file_name"] raises KeyError on a table without that column; else the
\* names are rewritten, the rows sorted by the two read-support columns
\* (ascending, stable) and duplicate rows dropped
parse_fusion_inspector(df) ==
    IF "file_name" \notin df.cols
    THEN [err |-> "KeyError", df |-> Table({}, <<>>)]
    ELSE
    LET n       == Len(df.rows)
        renamed == [i \in 1..n |->
                      [df.rows[i] EXCEPT !.file_name = RenameFile(@)]]
        by      == <<"JunctionReadCount", "SpanningFragCount">>
        order   == OrderBy(n, [i \in 1..n, j \in 1..n |->
                                  RowLess(renamed[i], renamed[j], by, TRUE)])
        sorted  == [p \in 1..n |-> renamed[order[p]]]
        kept    == drop_duplicates(Tup(sorted))
    IN  [err |-> "",
         df  |-> Table(df.cols, [p \in 1..Len(kept) |-> sorted[kept[p]]])]

ParseFusionInspector ==
    /\ reader = "parse_fusion_inspector"
    /\ reader_pc = "call"
    /\ read_pc = "returned"
    /\ LET r == parse_fusion_inspector(read_out)
       IN  /\ reader_out' = r.df
           /\ reader_err' = r.err
    /\ reader_pc' = "done"
    /\ UNCHANGED <<dxfiles, futures, task, attempts, results, next_future,
                   read_out, read_pc, reader>>
    /\ UNCHANGED completed
    /\ UNCHANGED <<pivot_vars, sheet_vars, parse_vars, other_vars>>

ReadNext ==
    \/ ReturnNoFiles
    \/ Submit
    \/ WorkerStart
    \/ WorkerFinish
    \/ Collect
    \/ ReturnConcat
    \/ ParseStarFusion
    \/ ParseFusionInspector

SpecRead == ReadInit /\ [][ReadNext]_vars

\* the files of dxfiles whose read succeeded, in the order of dxfiles
Succeeded == SelectSeq(Tup([i \in 1..Len(dxfiles) |-> i]), LAMBDA i : task[i] = "ok")

\* C1: no read is started twice, the call never ends with an exception, and it
\* returns the tables of exactly the files whose read succeeded, in the order
\* of dxfiles (an empty table when none did), whichever files fail and however
\* the workers interleave.
C1_FailedReadsExcluded ==
    /\ \A i \in 1..Len(dxfiles) : attempts[i] <= 1
    /\ read_pc # "raised"
    /\ read_pc = "returned" =>
         /\ \A i \in 1..Len(dxfiles) : task[i] \in {"ok", "raised"} /\ attempts[i] = 1
         /\ read_out.rows =
              Flatten(Tup([k \in 1..Len(Succeeded) |->
                             read_dxfile(dxfiles[Succeeded[k]], TRUE).rows]))

C1_Witness ==
    /\ read_pc = "returned"
    /\ Len(dxfiles) = 3
    /\ task[1] = "ok" /\ task[2] = "raised" /\ task[3] = "ok"
    /\ read_out.rows # <<>>

NoneRead == \A i \in 1..Len(dxfiles) : task[i] = "raised"

\* C11: _parse_fusion_files, and parse_star_fusion which returns its result,
\* never raise; given no file, or when every submitted read failed, they
\* return the empty table (no column, no row).
C11_NoFileOrAllFailedGivesEmptyTable ==
    /\ read_pc # "raised"
    /\ (read_pc = "returned" /\ NoneRead) => read_out = Table({}, <<>>)
    /\ (reader = "parse_star_fusion" /\ reader_pc = "done") =>
         /\ reader_err = ""
         /\ NoneRead => reader_out = Table({}, <<>>)

C11_Witness ==
    /\ reader = "parse_star_fusion" /\ reader_pc = "done"
    /\ Len(dxfiles) = 2
    /\ NoneRead
    /\ IsEmpty(reader_out)

C11_WitnessNoFile ==
    /\ reader = "parse_star_fusion" /\ reader_pc = "done"
    /\ dxfiles = <<>>
    /\ IsEmpty(reader_out)

\* C12: parse_fusion_inspector raises no error and returns an empty table when
\* it is given no file or when none of its files could be read.
C12_FusionInspectorEmptyWithoutError ==
    (reader = "parse_fusion_inspector" /\ reader_pc = "done" /\ NoneRead) =>
        /\ reader_err = ""
        /\ IsEmpty(reader_out)

\* C23: the per-file tables are concatenated, and _parse_fusion_files returns,
\* only in a step taken when every submitted read has returned or raised; until
\* then nothing has been concatenated.
C23_ConcatAfterAllReads ==
    [][(read_out' # read_out \/ (read_pc # "returned" /\ read_pc' = "returned"))
          => /\ futures = Len(dxfiles)
             /\ \A i \in 1..Len(dxfiles) : task[i] \in {"ok", "raised"}
             /\ Running = {}]_vars

C23_Witness ==
    /\ read_pc = "returned"
    /\ Len(dxfiles) = 3
    /\ Len(results) = 2
    /\ completed[1] = 3
    /\ task[3] = "raised"
    /\ read_out = concat(results)

\* C27: the returned table is the concatenation of the tables of the files
\* whose read succeeded, in the order of dxfiles and each with its rows in file
\* order: it is determined by dxfiles and the set of failed files, whatever
\* the order in which the reads completed.
C27_InputOrderWhateverCompletionOrder ==
    read_pc = "returned" =>
        read_out =
            IF Succeeded = <<>> THEN Table({}, <<>>)
            ELSE concat(Tup([k \in 1..Len(Succeeded) |->
                               InsertFileName(read_csv(dxfiles[Succeeded[k]]),
                                              dxfiles[Succeeded[k]].name)]))

C27_Witness ==
    /\ read_pc = "returned"
    /\ Len(dxfiles) = 2
    /\ completed = <<2, 1>>
    /\ task[1] = "ok" /\ task[2] = "ok"
    /\ Len(read_csv(dxfiles[1]).rows) = 1
    /\ Len(read_csv(dxfiles[2]).rows) = 2
    /\ Len(read_out.rows) = 3
    /\ read_out.rows[1].file_name = dxfiles[1].name

\* C26: parse_fusion_inspector returns rows whose file_name is the text before
\* the first underscore of a file's name followed by the Fusion Inspector
\* suffix, in descending order of JunctionReadCount then SpanningFragCount,
\* no two of them identical.
C26_RenamedDescendingDeduplicated ==
    (reader = "parse_fusion_inspector" /\ reader_pc = "done" /\ reader_err = "") =>
        LET rows == reader_out.rows
        IN  /\ \A i \in 1..Len(rows) :
                  \E f \in 1..Len(dxfiles) :
                      rows[i].file_name = RenameFile(dxfiles[f].name)
            /\ \A i, j \in 1..Len(rows) :
                  i < j =>
                    \/ rows[i].JunctionReadCount > rows[j].JunctionReadCount
                    \/ /\ rows[i].JunctionReadCount = rows[j].JunctionReadCount
                       /\ rows[i].SpanningFragCount >= rows[j].SpanningFragCount
            /\ \A i, j \in 1..Len(rows) : rows[i] = rows[j] => i = j

\* the annotation rows of the specimen of summary row r that have r's
\* breakpoint pair: parse_fusion_inspector names an annotation row after the
\* predictor file of its sample
OwnAnnotations(r) ==
    {k \in 1..Len(fi_df.rows) :
        /\ PairKey(fi_df.rows[k]) = PairKey(r)
        /\ \E j \in 1..Len(sf_df.rows) :
              /\ parse_specimen_id(sf_df.rows[j].file_name) = r.SPECIMEN
              /\ fi_df.rows[k].file_name = RenameFile(sf_df.rows[j].file_name)}

\* C29: the FRAME of a summary row is the PROT_FUSION_TYPE of an annotation row
\* of the row's own specimen with the row's breakpoint pair, and is missing
\* when the specimen has no such annotation row, whatever annotation rows
\* other specimens have.
C29_FrameFromOwnSpecimen ==
    PivotOk =>
        \A i \in 1..Len(pivot_df.rows) :
            LET r == pivot_df.rows[i]
            IN  IF OwnAnnotations(r) = {} THEN r.FRAME = NullS
                ELSE \E k \in OwnAnnotations(r) :
                        r.FRAME = fi_df.rows[k].PROT_FUSION_TYPE

-----------------------------------------------------------------------------
(* The executor of _parse_fusion_files (parser.py 203-212) given many files:  *)
(* the read tasks are counted, not told apart                                 *)

MaxPoolFiles == 18

\* max_workers without the cap: one worker per file
pool_max_workers_uncapped == pool_n

\* parser.py 203: max_workers = min(16, len(dxfiles))
pool_max_workers == IF pool_n < 16 THEN pool_n ELSE 16

PoolInit ==
    /\ pool_n \in 0..MaxPoolFiles
    /\ pool_futures = 0
    /\ pool_queued = 0
    /\ pool_running = 0
    /\ pool_finished = 0
    /\ pool_pc = "call"
    /\ PivotIdle
    /\ ReadIdle
    /\ SheetIdle
    /\ ParseIdle
    /\ StaticIdle

\* parser.py 200-201: no file, no executor
PoolReturnNoFiles ==
    /\ pool_pc = "call"
    /\ pool_n = 0
    /\ pool_pc' = "returned"
    /\ UNCHANGED <<pool_n, pool_futures, pool_queued, pool_running, pool_finished>>
    /\ UNCHANGED <<pivot_vars, read_vars, sheet_vars, parse_vars, static_vars>>

\* parser.py 205: executor.submit(read_dxfile, dxfile) puts one task in the queue
PoolSubmit ==
    /\ pool_pc \in {"call", "submit"}
    /\ pool_futures < pool_n
    /\ pool_futures' = pool_futures + 1
    /\ pool_queued' = pool_queued + 1
    /\ pool_pc' = IF pool_futures + 1 = pool_n THEN "collect" ELSE "submit"
    /\ UNCHANGED <<pool_n, pool_running, pool_finished>>
    /\ UNCHANGED <<pivot_vars, read_vars, sheet_vars, parse_vars, static_vars>>

\* parser.py 204: the executor has max_workers threads; a free one takes a
\* queued task and runs read_dxfile on it, one task at a time
PoolWorkerStart ==
    /\ pool_queued > 0
    /\ pool_running < pool_max_workers
    /\ pool_queued' = pool_queued - 1
    /\ pool_running' = pool_running + 1
    /\ UNCHANGED <<pool_n, pool_futures, pool_finished, pool_pc>>
    /\ UNCHANGED <<pivot_vars, read_vars, sheet_vars, parse_vars, static_vars>>

\* read_dxfile returns or raises in its worker, which becomes free
PoolWorkerFinish ==
    /\ pool_running > 0
    /\ pool_running' = pool_running - 1
    /\ pool_finished' = pool_finished + 1
    /\ UNCHANGED <<pool_n, pool_futures, pool_queued, pool_pc>>
    /\ UNCHANGED <<pivot_vars, read_vars, sheet_vars, parse_vars, static_vars>>

\* parser.py 207-219: the loop over the futures has taken every result
PoolReturn ==
    /\ pool_pc = "collect"
    /\ pool_finished = pool_n
    /\ pool_pc' = "returned"
    /\ UNCHANGED <<pool_n, pool_futures, pool_queued, pool_running, pool_finished>>
    /\ UNCHANGED <<pivot_vars, read_vars, sheet_vars, parse_vars, static_vars>>

PoolNext ==
    \/ PoolReturnNoFiles
    \/ PoolSubmit
    \/ PoolWorkerStart
    \/ PoolWorkerFinish
    \/ PoolReturn

SpecPool == PoolInit /\ [][PoolNext]_vars

\* C24: however many files are given, at most 16 reads are in progress at any
\* time, and never more than there are files: the pool has min(16, number of
\* files) workers, each running one read at a time.
C24_AtMostSixteenReadsInProgress ==
    /\ pool_running <= 16
    /\ pool_running <= pool_n
    /\ pool_queued + pool_running + pool_finished = pool_futures

C24_Witness ==
    /\ pool_n = 18
    /\ pool_futures = 18
    /\ pool_running = 16
    /\ pool_queued = 2

-----------------------------------------------------------------------------
(* Summary sheet: write_summary (summary_sheet.py 176-228) *)

MaxSummaryRows == 5   \* rows of the summary written to the sheet

\* a cell without a value, and the placeholder cell of a merged range
NoValue == "<None>"
MergedCell == "<MergedCell>"

\* the value read from a cell: a MergedCell has none
CellValue(x) == IF x = MergedCell THEN NoValue ELSE x

\* defaults.py 160-163: SF_PIVOT_CONFIG["extra_cols"], each template split at {row}
LookupCols ==
    << [header |-> "EPIC", pre |-> "=VLOOKUP(B", post |-> ",'EPIC'!AJ:AK,2,0)"],
       [header |-> "DAYS COUNT", pre |-> "=VLOOKUP(B", post |-> ",'EPIC'!AJ:AL,3,0)"] >>

\* formula_template.replace("{row}", str(row))
Formula(t, row) == t.pre \o ToString(row) \o t.post

\* the group keys of the summary rows: file display name and specimen
SummaryKeys ==
    {[Filename |-> "RUN-SPEC1-PANEL_x", SPECIMEN |-> "SPEC1"],
     [Filename |-> "OLD-SPEC1-PANEL_x", SPECIMEN |-> "SPEC1"],
     [Filename |-> "RUN-SPEC2-PANEL_x", SPECIMEN |-> "SPEC2"],
     [Filename |-> "RUN-SPEC3-PANEL_x", SPECIMEN |-> "SPEC3"]}

\* the header row and a data row of the summary as DataFrame.to_excel writes
\* them with the index: the five index levels, then the ten value columns
SummaryHeader ==
    <<"Filename", "SPECIMEN", "Unique Reads(M)", "Duplicate Reads(M)", "LEFTRIGHT",
      "LeftBreakpoint", "#FusionName", "RightBreakpoint", "JunctionReadCount",
      "SpanningFragCount", "Count_predicted", "ReferenceSources",
      "PreviousPositives", "FRAME", "FFPM">>

SummaryRow(data, i) ==
    <<data[i].Filename, data[i].SPECIMEN, "3", "2",
      "chr1:10" \o ToString(i) \o "_chr2:200",
      "chr1:10" \o ToString(i), "A--B", "chr2:200", "10", "5", "0", "DB1", "",
      "INFRAME", "1">>

\* a merged range of the sheet
Range(col, first, last) ==
    [min_col |-> col, max_col |-> col, min_row |-> first, max_row |-> last]

\* DataFrame.to_excel(index=True, merge_cells=True): in each index level but
\* the last, consecutive rows with the same labels down to that level are one
\* merged range; the label is in its first cell
to_excel(data) ==
    LET n == Len(data)
        rows == [i \in 1..n |-> SummaryRow(data, i)]
        same(i, j, l) == \A k \in 1..l : rows[i][k] = rows[j][k]
        first(i, l) == i = 1 \/ ~same(i - 1, i, l)
        last(i, l) == CHOOSE j \in i..n :
                        /\ \A k \in i..j : same(i, k, l)
                        /\ j = n \/ ~same(i, j + 1, l)
        spans == {m \in {Range(l, i + 1, last(i, l) + 1) : i \in 1..n, l \in 1..4} :
                    /\ first(m.min_row - 1, m.min_col)
                    /\ m.max_row > m.min_row}
        covered(r, c) == \E m \in spans :
                            m.min_col = c /\ m.min_row < r /\ r <= m.max_row
    IN  [cells |-> <<SummaryHeader>> \o
                   Tup([i \in 1..n |->
                          Tup([c \in 1..Len(SummaryHeader) |->
                                 IF covered(i + 1, c) THEN MergedCell
                                 ELSE rows[i][c]])]),
         merged |-> spans]

\* excel.py 410-430: get_col_letter, the last column whose header is col_name
\* (0 when there is none)
get_col_letter(w, col_name) ==
    LET hits == {c \in 1..Len(w.cells[1]) : w.cells[1][c] = col_name}
    IN  IF hits = {} THEN 0 ELSE CHOOSE c \in hits : \A d \in hits : d <= c

\* Worksheet.delete_cols(idx): the cells to the right move left; merged ranges
\* are left where they are
delete_cols(w, idx) ==
    [w EXCEPT !.cells =
        Tup([r \in 1..Len(w.cells) |->
               SubSeq(w.cells[r], 1, idx - 1)
               \o SubSeq(w.cells[r], idx + 1, Len(w.cells[r]))])]

\* excel.py 433-457: drop_column
drop_column(w, col_name) ==
    IF get_col_letter(w, col_name) = 0 THEN w
    ELSE delete_cols(w, get_col_letter(w, col_name))

\* Worksheet.insert_cols(idx, amount): the cells from idx on move right; merged
\* ranges are left where they are
insert_cols(w, idx, amount) ==
    [w EXCEPT !.cells =
        Tup([r \in 1..Len(w.cells) |->
               SubSeq(w.cells[r], 1, idx - 1)
               \o Tup([k \in 1..amount |-> NoValue])
               \o SubSeq(w.cells[r], idx, Len(w.cells[r]))])]

\* add_lookup_columns writing the formula of each row into every row
add_lookup_columns_per_row(w, cols, spec_col_idx) ==
    LET w1 == insert_cols(w, spec_col_idx + 1, Len(cols))
    IN  [w1 EXCEPT !.cells =
           Tup([r \in 1..Len(w1.cells) |->
                  Tup([c \in 1..Len(w1.cells[r]) |->
                         IF c <= spec_col_idx \/ c > spec_col_idx + Len(cols)
                         THEN w1.cells[r][c]
                         ELSE IF r = 1 THEN cols[c - spec_col_idx].header
                         ELSE Formula(cols[c - spec_col_idx], r)])])]

\* summary_sheet.py 71-131: add_lookup_columns.  In each new column: the
\* header; for each merged range of the specimen column a merged range over
\* the same rows, with the formula of its first row in its first cell (value=None
\* writes nothing to the others); the formula of the row in every other row.
add_lookup_columns(w, cols, spec_col_idx) ==
    LET w1 == insert_cols(w, spec_col_idx + 1, Len(cols))
        merged_ranges == {m \in w1.merged : m.min_col = spec_col_idx}
        merged_rows == UNION {m.min_row..m.max_row : m \in merged_ranges}
        newcols == (spec_col_idx + 1)..(spec_col_idx + Len(cols))
        value(r, c) ==
            IF r = 1 THEN cols[c - spec_col_idx].header
            ELSE IF r \in merged_rows
            THEN IF \E m \in merged_ranges : m.min_row = r
                 THEN Formula(cols[c - spec_col_idx], r)
                 ELSE MergedCell
            ELSE Formula(cols[c - spec_col_idx], r)
    IN  [cells |->
           Tup([r \in 1..Len(w1.cells) |->
                  Tup([c \in 1..Len(w1.cells[r]) |->
                         IF c \in newcols THEN value(r, c) ELSE w1.cells[r][c]])]),
         merged |-> w1.merged \cup
                    {Range(c, m.min_row, m.max_row) :
                        c \in newcols, m \in merged_ranges}]

\* the positions (1-based) of the rows of df whose SPECIMEN is s
RowsOf(df, s) == {i \in 1..Len(df) : df[i].SPECIMEN = s}

\* summary_sheet.py 48-64: add_databar_to_ffpm, one range of the FFPM column
\* per group of df.groupby(SPECIMEN), from the sheet row of the group's first
\* row to that of its last row
add_databar_to_ffpm(df) ==
    {[start |-> Min(RowsOf(df, s)) + 1, end |-> Max(RowsOf(df, s)) + 1] :
        s \in {df[i].SPECIMEN : i \in 1..Len(df)}}

\* df.groupby(index_col).tail(1).index: the position of the last row of each
\* group, in the order of the rows
last_rows(df) ==
    SelectSeq(Tup([i \in 1..Len(df) |-> i]),
              LAMBDA i : i = Max(RowsOf(df, df[i].SPECIMEN)))

\* excel.py 132-160: highlight_specimen_borders, the sheet rows given a thick
\* bottom border
highlight_specimen_borders(df) ==
    {last_rows(df)[k] + 1 : k \in 1..Len(last_rows(df))}

\* alternate_specimen_colors ending each block one row early
alternate_specimen_colors_short(df, start_row_idx) ==
    LET lr == last_rows(df)
        block(r) == {k \in 1..Len(lr) :
                       /\ r < lr[k] - 1 + start_row_idx
                       /\ r >= (IF k = 1 THEN start_row_idx
                                ELSE lr[k - 1] - 1 + start_row_idx)}
    IN  Tup([r \in 1..(Len(df) + 1) |->
               IF block(r) = {} THEN "none"
               ELSE IF (Max(block(r)) - 1) % 2 = 0 THEN "blue" ELSE "green"])

\* excel.py 163-209: alternate_specimen_colors, the fill of each sheet row:
\* block idx runs from the row after the previous block to the sheet row of
\* its last row and takes colors[idx % 2]; a later block overwrites
alternate_specimen_colors(df, start_row_idx) ==
    LET lr == last_rows(df)
        block(r) == {k \in 1..Len(lr) :
                       /\ r < lr[k] - 1 + start_row_idx + 1
                       /\ r >= (IF k = 1 THEN start_row_idx
                                ELSE lr[k - 1] - 1 + start_row_idx + 1)}
    IN  Tup([r \in 1..(Len(df) + 1) |->
               IF block(r) = {} THEN "none"
               ELSE IF (Max(block(r)) - 1) % 2 = 0 THEN "blue" ELSE "green"])

\* expected_keys without drop_downs
expected_keys_no_drop_downs ==
    <<"sheet_name", "tab_color", "extra_cols", "col_widths">>

\* summary_sheet.py 191-197: the keys write_summary requires of its config
expected_keys ==
    <<"sheet_name", "tab_color", "extra_cols", "drop_downs", "col_widths">>

Tup2Set(keys) == {keys[i] : i \in 1..Len(keys)}

\* validate_config(config, expected_keys): ValueError when the config lacks
\* one of the keys (tests/test_utils.py 109-121)
validate_config(cfg, keys) ==
    IF \E k \in Tup2Set(keys) : k \notin cfg
    THEN "ValueError: Missing required config key"
    ELSE ""

SheetInit ==
    /\ summary \in {q \in SeqsUpTo(SummaryKeys, MaxSummaryRows) :
                      /\ q # <<>>
                      /\ \A i, j \in 1..Len(q) :
                           i < j => Rank[q[i].SPECIMEN] <= Rank[q[j].SPECIMEN]}
    /\ config \in SUBSET Tup2Set(expected_keys)
    /\ ws = [cells |-> <<>>, merged |-> {}]
    /\ fmt = [databars |-> {}, fill |-> <<>>, fill_cols |-> 0, thick |-> {}]
    /\ sheet_err = ""
    /\ sheet_pc = "validate"
    /\ PivotIdle
    /\ ReadIdle
    /\ ParseIdle
    /\ OthersIdle

\* summary_sheet.py 198: validate_config(config, expected_keys), before
\* anything else
ValidateConfig ==
    /\ sheet_pc = "validate"
    /\ sheet_err' = validate_config(config, expected_keys)
    /\ sheet_pc' = IF sheet_err' = "" THEN "write" ELSE "raised"
    /\ UNCHANGED <<summary, config, ws, fmt>>
    /\ UNCHANGED <<pivot_vars, read_vars, parse_vars, other_vars>>

\* summary_sheet.py 200-211: the config values are read (KeyError on a key
\* the config lacks), then write_df_to_sheet(..., include_index=True)
WriteDfToSheet ==
    /\ sheet_pc = "write"
    /\ IF {"sheet_name", "tab_color", "extra_cols", "col_widths"} \subseteq config
       THEN /\ ws' = to_excel(summary)
            /\ sheet_pc' = "drop"
            /\ UNCHANGED sheet_err
       ELSE /\ sheet_err' = "KeyError"
            /\ sheet_pc' = "raised"
            /\ UNCHANGED ws
    /\ UNCHANGED <<summary, config, fmt>>
    /\ UNCHANGED <<pivot_vars, read_vars, parse_vars, other_vars>>

\* summary_sheet.py 213: drop_column(summary_sheet, "LEFTRIGHT")
DropColumn ==
    /\ sheet_pc = "drop"
    /\ ws' = drop_column(ws, "LEFTRIGHT")
    /\ sheet_pc' = "lookup"
    /\ UNCHANGED <<summary, config, fmt, sheet_err>>
    /\ UNCHANGED <<pivot_vars, read_vars, parse_vars, other_vars>>

\* summary_sheet.py 215: add_lookup_columns(summary_sheet, lookup_cols), the
\* specimen column being "B"
AddLookupColumns ==
    /\ sheet_pc = "lookup"
    /\ ws' = add_lookup_columns(ws, LookupCols, 2)
    /\ sheet_pc' = "format"
    /\ UNCHANGED <<summary, config, fmt, sheet_err>>
    /\ UNCHANGED <<pivot_vars, read_vars, parse_vars, other_vars>>

\* summary_sheet.py 228 (format_summary_sheet, 161-173): the passes that group
\* the rows of the summary by specimen, on the reset index of the summary; the
\* fill covers the columns before FFPM, a header to_excel always writes
FormatSummarySheet ==
    /\ sheet_pc = "format"
    /\ fmt' = [databars |-> add_databar_to_ffpm(summary),
               fill |-> alternate_specimen_colors(summary, 2),
               fill_cols |-> get_col_letter(ws, "FFPM") - 1,
               thick |-> highlight_specimen_borders(summary)]
    /\ sheet_pc' = "done"
    /\ UNCHANGED <<summary, config, ws, sheet_err>>
    /\ UNCHANGED <<pivot_vars, read_vars, parse_vars, other_vars>>

SheetNext ==
    \/ ValidateConfig
    \/ WriteDfToSheet
    \/ DropColumn
    \/ AddLookupColumns
    \/ FormatSummarySheet

SpecSheet == SheetInit /\ [][SheetNext]_vars

\* the merged ranges of the specimen column that hold row r
BlocksAt(r) == {m \in ws.merged : m.min_col = 2 /\ m.min_row <= r /\ r <= m.max_row}

\* C10: after add_lookup_columns, in every lookup column and every data row r:
\* inside a merged specimen block the first row of the block holds the formula
\* for that first row and every later row of the block is blank; outside any
\* block row r holds the formula for r.
C10_LookupFormulaPerBlock ==
    sheet_pc = "done" =>
      \A k \in 1..Len(LookupCols) :
        \A r \in 2..Len(ws.cells) :
          IF BlocksAt(r) # {}
          THEN \A m \in BlocksAt(r) :
                 /\ ws.cells[m.min_row][2 + k] = Formula(LookupCols[k], m.min_row)
                 /\ r > m.min_row => CellValue(ws.cells[r][2 + k]) = NoValue
          ELSE ws.cells[r][2 + k] = Formula(LookupCols[k], r)

C10_Witness ==
    /\ sheet_pc = "done"
    /\ Len(ws.cells) = 4
    /\ BlocksAt(2) = {Range(2, 2, 3)}
    /\ BlocksAt(4) = {}
    /\ ws.cells[2][3] = "=VLOOKUP(B2,'EPIC'!AJ:AK,2,0)"
    /\ ws.cells[3][3] = MergedCell
    /\ ws.cells[4][4] = "=VLOOKUP(B4,'EPIC'!AJ:AL,3,0)"

\* C19: when the config lacks one of sheet_name, tab_color, extra_cols,
\* drop_downs, col_widths, write_summary raises ValueError (Missing required
\* config key) and the worksheet is never written or modified.
C19_MissingConfigKeyLeavesSheetUntouched ==
    (\E k \in {"sheet_name", "tab_color", "extra_cols", "drop_downs", "col_widths"} :
        k \notin config /\ sheet_pc # "idle") =>
        /\ ws = [cells |-> <<>>, merged |-> {}]
        /\ sheet_pc \in {"validate", "raised"}
        /\ sheet_pc = "raised" =>
             sheet_err = "ValueError: Missing required config key"

C19_Witness ==
    /\ sheet_pc = "raised"
    /\ config = {"sheet_name", "tab_color", "extra_cols", "col_widths"}
    /\ summary # <<>>
    /\ sheet_err = "ValueError: Missing required config key"
    /\ ws = [cells |-> <<>>, merged |-> {}]

\* the sheet rows of the summary rows of specimen s
SheetRowsOf(s) == {i + 1 : i \in RowsOf(summary, s)}

\* C21: after the presentation passes, the data-bar ranges are exactly the
\* row sets of the specimens, each a contiguous range, and every data row is
\* in exactly one; the thick bottom borders are on exactly the last row of each
\* specimen; rows of one specimen have one fill and the fills of two
\* specimens that follow each other differ.
C21_PresentationGroupsAreSpecimens ==
    sheet_pc = "done" =>
        LET n == Len(summary)
            specimens == {summary[i].SPECIMEN : i \in 1..n}
        IN  /\ {b.start..b.end : b \in fmt.databars}
                  = {SheetRowsOf(s) : s \in specimens}
            /\ \A r \in 2..(n + 1) :
                  Cardinality({b \in fmt.databars : r \in b.start..b.end}) = 1
            /\ fmt.thick = {Max(SheetRowsOf(s)) : s \in specimens}
            /\ \A r \in 2..(n + 1) : fmt.fill[r] \in {"blue", "green"}
            /\ \A r \in 2..n :
                  (fmt.fill[r] = fmt.fill[r + 1])
                      <=> (summary[r - 1].SPECIMEN = summary[r].SPECIMEN)

C21_Witness ==
    /\ sheet_pc = "done"
    /\ Len(summary) = 5
    /\ fmt.databars = {[start |-> 2, end |-> 3], [start |-> 4, end |-> 4],
                       [start |-> 5, end |-> 6]}
    /\ fmt.fill = <<"none", "blue", "blue", "green", "blue", "blue">>
    /\ fmt.thick = {3, 4, 6}

-----------------------------------------------------------------------------
(* Parsing helpers called on their own: extract_fusions, parse_specimen_id,
   parse_fastqc, read_dxfile *)

MaxPieces == 4    \* pieces of a free text

\* what a free text is made of: gene symbols, transcript accessions,
\* separators, blanks and punctuation
Symbols == {<<"A", "B">>, <<"C", "D", "1">>}
Accessions == {<<"N", "M", "_", "1">>, <<"N", "R", "_", "1">>,
               <<"E", "N", "S", "T", "1">>}
Separators == {<<":", ":">>, <<"-">>, <<"-", "-">>}
Blanks == {<<>>, <<" ">>}
Pieces ==
    Symbols \cup Separators
        \cup {<<"N", "M", "_", "1">>, <<"E", "N", "S", "T", "1">>, <<" ">>, <<",">>}

\* two tokens joined by a separator, with or without blanks around it
Spelling(g1, w1, sep, w2, g2) == g1 \o w1 \o sep \o w2 \o g2

Spellings(Tokens1, Tokens2) ==
    {Spelling(g1, w1, sep, w2, g2) :
        g1 \in Tokens1, w1 \in Blanks, sep \in Separators, w2 \in Blanks,
        g2 \in Tokens2}

\* the texts extract_fusions is applied to (parser.py 284: the cells of the
\* column Test Result, a cell can be missing)
\* the text of test_extract_fusions_ignores_transcripts
TranscriptsOnly ==
    <<"A", "L", "K", "-", "-", "N", "M", "_", "1", "2", "3", "4", "5", "6", ",",
      " ", "E", "N", "S", "T", "0", "0", "0", "0", "5", ":", ":", "R", "O", "S",
      "1">>

Texts ==
    {Flatten(q) : q \in SeqsUpTo(Pieces, MaxPieces)}
        \cup Spellings(Symbols \cup Accessions, Symbols \cup Accessions)
        \cup {NullText, TranscriptsOnly}

MaxNameLen == 3   \* characters of a sample name

\* sample names, and the Sample columns of one or two cells parse_specimen_id
\* is applied to, one cell after the other (parser.py 177:
\* df["Sample"].apply(parse_specimen_id))
SampleNames == SeqsUpTo({"a", "b", "-"}, MaxNameLen)
SampleColumns ==
    {<<n1>> : n1 \in SampleNames} \cup {<<n1, n2>> : n1 \in SampleNames, n2 \in SampleNames}

\* the FastQC files: any of the columns can be absent from the header
FastqcCols == {"Sample", "total_deduplicated_percentage", "Total Sequences"}
FastqcRow(cols, pct, total) ==
    [c \in cols |-> IF c = "Sample" THEN "S1"
                    ELSE IF c = "total_deduplicated_percentage" THEN pct
                    ELSE total]
FastqcFiles ==
    UNION {{DXFile(<<"q", "c">>, cols, rows) :
               rows \in IF cols = {} THEN {<<>>}
                        ELSE SeqsUpTo({FastqcRow(cols, pct, total) :
                                         pct \in {75, 100},
                                         total \in {1000000, 4000000}}, 1)} :
           cols \in SUBSET FastqcCols}

\* parser.py 137: the columns parse_fastqc requires, in the order it tests them
required_cols == <<"total_deduplicated_percentage", "Total Sequences">>

\* x / 1_000_000 as <<whole part, millionths>>
Millions(x) == <<x \div 1000000, x % 1000000>>

\* parser.py 142-156: the read counts of every sample; reading a column that
\* the table lacks raises KeyError
FastqcMetrics(df) ==
    LET unique(r) == (r["total_deduplicated_percentage"] * r["Total Sequences"]) \div 100
        duplicate(r) == r["Total Sequences"] - unique(r)
        out(r) == [Sample            |-> r["Sample"],
                   UniqueReads       |-> unique(r),
                   DuplicateReads    |-> duplicate(r),
                   UniqueReadsM      |-> Millions(unique(r)),
                   DuplicateReadsM   |-> Millions(duplicate(r))]
    IN  IF ~({"total_deduplicated_percentage", "Total Sequences", "Sample"}
                \subseteq df.cols)
        THEN [err |-> "KeyError", missing |-> <<>>, df |-> <<>>]
        ELSE [err |-> "", missing |-> <<>>,
              df  |-> <<Table({"Sample", "UniqueReads", "DuplicateReads",
                               "UniqueReadsM", "DuplicateReadsM"},
                              [k \in 1..Len(df.rows) |-> out(df.rows[k])])>>]

\* parse_fastqc without the test of the required columns
parse_fastqc_unchecked(f) == FastqcMetrics(read_dxfile(f, FALSE))

\* parse_fastqc (parser.py 114-158): ValueError naming the missing required
\* columns, else the read counts of every sample
parse_fastqc(f) ==
    LET df == read_dxfile(f, FALSE)
        missing_cols == SelectSeq(required_cols, LAMBDA c : c \notin df.cols)
    IN  IF missing_cols # <<>>
        THEN [err |-> "ValueError", missing |-> missing_cols, df |-> <<>>]
        ELSE FastqcMetrics(df)

\* excel.py 16-43: add_extra_columns
MaxDataRows == 2

\* a sheet as to_excel(index=False) writes it: a header row and data rows of
\* two columns, no merged range; the sheet of an empty table has no cell
PlainSheets ==
    {[cells |-> Tup([r \in 1..n |->
                       Tup([c \in 1..2 |-> "v" \o ToString(r) \o ToString(c)])]),
      merged |-> {}] : n \in 0..(MaxDataRows + 1)}

\* entries of the extra_cols of defaults.py 9-41, each formula template as the
\* sequence of its parts: the placeholders {row} and the text between them
ExtraColEntries ==
    {[name |-> "SPECIMEN", formula |-> <<"=MID(C", "{row}", ",11,10)">>],
     [name |-> "ID",
      formula |-> <<"=CONCATENATE(A", "{row}", ",\"_\",L", "{row}", ")">>],
     [name |-> "EPIC",
      formula |-> <<"=VLOOKUP(A", "{row}", ",'EPIC'!AJ:AK,2,0)">>]}

\* a dict of extra columns: entries in insertion order, no name twice
ExtraCols ==
    {d \in SeqsUpTo(ExtraColEntries, 2) :
        \A i, j \in 1..Len(d) : d[i].name = d[j].name => i = j}

\* Worksheet.max_row: 1 for a sheet without cells
max_row(w) == IF Len(w.cells) = 0 THEN 1 ELSE Len(w.cells)

\* formula.replace("{row}", str(row), 1): the first placeholder only
replace_first(parts, old, new) ==
    [k \in 1..Len(parts) |->
        IF parts[k] = old /\ \A j \in 1..(k - 1) : parts[j] # old
        THEN new ELSE parts[k]]

\* str.replace(old, new): every occurrence of old becomes new
replace(parts, old, new) ==
    [k \in 1..Len(parts) |-> IF parts[k] = old THEN new ELSE parts[k]]

\* excel.py 37-43: insert_cols(start, amount=len(extra_cols)); then for the
\* i-th entry the name in row 1 of column start + i - 1 and, in each row from
\* 2 to max_row, the formula with {row} replaced by the row number
add_extra_columns(w, extra_cols, start) ==
    LET num_cols == Len(extra_cols)
        w1 == insert_cols(w, start, num_cols)
        rows == IF num_cols = 0 THEN Len(w1.cells) ELSE max_row(w1)
        width == IF Len(w1.cells) = 0 THEN start + num_cols - 1
                 ELSE Len(w1.cells[1])
        value(r, c) ==
            IF c \in start..(start + num_cols - 1)
            THEN IF r = 1 THEN extra_cols[c - start + 1].name
                 ELSE replace(extra_cols[c - start + 1].formula, "{row}", ToString(r))
            ELSE IF r <= Len(w1.cells) THEN w1.cells[r][c] ELSE NoValue
    IN  [cells |-> Tup([r \in 1..rows |-> Tup([c \in 1..width |-> value(r, c)])]),
         merged |-> w1.merged]

\* the calls of add_extra_columns: the start column is 1 (excel.py 517) or a
\* later column of the sheet, at most the one after its last column
ExtraColumnCalls ==
    {[worksheet |-> w, extra_cols |-> d, start |-> st] :
        w \in PlainSheets, d \in ExtraCols, st \in 1..3}

ParseInit ==
    /\ \/ call_fn = "extract_fusions" /\ call_arg \in Texts
       \/ call_fn = "parse_specimen_id" /\ call_arg \in SampleColumns
       \/ call_fn = "parse_fastqc" /\ call_arg \in FastqcFiles
       \/ call_fn = "read_dxfile"
          /\ call_arg \in (Files \cup FastqcFiles) \X BOOLEAN
       \/ call_fn = "add_extra_columns"
          /\ call_arg \in {a \in ExtraColumnCalls :
                              a.start <= (IF a.worksheet.cells = <<>> THEN 1 ELSE 3)}
    /\ call_ret = <<>>
    /\ call_err = ""
    /\ call_local = <<>>
    /\ call_pc = "call"
    /\ PivotIdle
    /\ ReadIdle
    /\ SheetIdle
    /\ OthersIdle

ExtractFusions ==
    /\ call_fn = "extract_fusions"
    /\ call_pc = "call"
    /\ call_ret' = <<extract_fusions(call_arg)>>
    /\ call_local' = Matches(call_arg)
    /\ call_pc' = "done"
    /\ UNCHANGED <<call_fn, call_arg, call_err>>
    /\ UNCHANGED <<pivot_vars, read_vars, sheet_vars, other_vars>>

\* one call of parse_specimen_id, on the next cell of the column; an
\* exception ends the apply
ParseSpecimenId ==
    /\ call_fn = "parse_specimen_id"
    /\ call_pc = "call"
    /\ LET r == parse_specimen_id(call_arg[Len(call_ret) + 1])
       IN  IF r = "IndexError"
           THEN /\ call_err' = "IndexError"
                /\ call_pc' = "done"
                /\ UNCHANGED call_ret
           ELSE /\ call_ret' = Append(call_ret, r)
                /\ call_pc' = IF Len(call_ret) + 1 = Len(call_arg)
                              THEN "done" ELSE "call"
                /\ UNCHANGED call_err
    /\ UNCHANGED <<call_fn, call_arg, call_local>>
    /\ UNCHANGED <<pivot_vars, read_vars, sheet_vars, other_vars>>

ParseFastqc ==
    /\ call_fn = "parse_fastqc"
    /\ call_pc = "call"
    /\ LET r == parse_fastqc(call_arg)
       IN  /\ call_ret' = r.df
           /\ call_err' = r.err
           /\ call_local' = r.missing
    /\ call_pc' = "done"
    /\ UNCHANGED <<call_fn, call_arg>>
    /\ UNCHANGED <<pivot_vars, read_vars, sheet_vars, other_vars>>

ReadDxfile ==
    /\ call_fn = "read_dxfile"
    /\ call_pc = "call"
    /\ call_ret' = <<read_dxfile(call_arg[1], call_arg[2])>>
    /\ call_pc' = "done"
    /\ UNCHANGED <<call_fn, call_arg, call_err, call_local>>
    /\ UNCHANGED <<pivot_vars, read_vars, sheet_vars, other_vars>>

AddExtraColumns ==
    /\ call_fn = "add_extra_columns"
    /\ call_pc = "call"
    /\ call_ret' = <<add_extra_columns(call_arg.worksheet, call_arg.extra_cols,
                                       call_arg.start)>>
    /\ call_pc' = "done"
    /\ UNCHANGED <<call_fn, call_arg, call_err, call_local>>
    /\ UNCHANGED <<pivot_vars, read_vars, sheet_vars, other_vars>>

ParseNext ==
    \/ ExtractFusions
    \/ ParseSpecimenId
    \/ ParseFastqc
    \/ ReadDxfile
    \/ AddExtraColumns

SpecParse == ParseInit /\ [][ParseNext]_vars

ExtractDone == call_fn = "extract_fusions" /\ call_pc = "done"

\* C13: for any two gene symbols, every spelling of the pair with "::", "-"
\* or "--", with or without blanks around the separator, gives exactly the
\* one string G1--G2.
C13_SpellingsGiveCanonicalName ==
    ExtractDone =>
        \A g1 \in Symbols, g2 \in Symbols, w1 \in Blanks, w2 \in Blanks,
           sep \in Separators :
            call_arg = Spelling(g1, w1, sep, w2, g2) =>
                call_ret = <<{FusionName(<<g1, g2>>)}>>

\* a token that begins with NM_, NR_ or ENST
IsAccession(sym) ==
    \/ Len(sym) >= 3 /\ SubSeq(sym, 1, 3) \in {<<"N", "M", "_">>, <<"N", "R", "_">>}
    \/ Len(sym) >= 4 /\ SubSeq(sym, 1, 4) = <<"E", "N", "S", "T">>

\* C14: the returned names are those of the pairs found, and no pair found has
\* a token beginning with NM_, NR_ or ENST as its first or second gene symbol;
\* a text that spells a single pair with such an accession on either side,
\* and the text ALK--NM_123456, ENST00005::ROS1, give the empty list.
C14_NoTranscriptAsGeneSymbol ==
    ExtractDone =>
        /\ call_ret = <<{FusionName(call_local[k]) : k \in 1..Len(call_local)}>>
        /\ \A k \in 1..Len(call_local) :
              ~IsAccession(call_local[k][1]) /\ ~IsAccession(call_local[k][2])
        /\ call_arg \in Spellings(Accessions, Symbols \cup Accessions)
                        \cup Spellings(Symbols, Accessions)
                        \cup {TranscriptsOnly}
              => call_ret = <<{}>>

C14_Witness ==
    /\ ExtractDone
    /\ call_arg = TranscriptsOnly
    /\ call_ret = <<{}>>

\* the positions of the hyphens of a name
Hyphens(name) == {k \in 1..Len(name) : name[k] = "-"}

\* the characters between the first hyphen of a name and its second hyphen,
\* or its end
SecondField(name) ==
    LET h1 == Min(Hyphens(name))
        later == (Hyphens(name) \ {h1}) \cup {Len(name) + 1}
    IN  JoinStr(SubSeq(name, h1 + 1, Min(later) - 1), "")

SpecimenCall == call_fn = "parse_specimen_id"

\* C15: every call of parse_specimen_id on a name with at least two
\* hyphen-delimited fields returns exactly the second field, and calls on
\* the same name return the same id whatever was called before.
C15_SecondFieldAndPure ==
    SpecimenCall =>
        /\ \A k \in 1..Len(call_ret) : call_ret[k] = SecondField(call_arg[k])
        /\ \A i, j \in 1..Len(call_ret) :
              call_arg[i] = call_arg[j] => call_ret[i] = call_ret[j]
        /\ (call_pc = "done" /\ \A k \in 1..Len(call_arg) : Hyphens(call_arg[k]) # {})
              => call_err = "" /\ Len(call_ret) = Len(call_arg)

C15_Witness ==
    /\ SpecimenCall /\ call_pc = "done"
    /\ call_arg = <<<<"a", "-", "b">>, <<"-", "b", "-">>>>
    /\ call_ret = <<"b", "b">>

\* C16: a call of parse_specimen_id on a name with fewer than two
\* hyphen-delimited fields raises IndexError and returns no specimen id.
C16_TooFewFieldsRaises ==
    SpecimenCall =>
        /\ \A k \in 1..Len(call_ret) : Hyphens(call_arg[k]) # {}
        /\ call_pc = "done" =>
              IF \E k \in 1..Len(call_arg) : Hyphens(call_arg[k]) = {}
              THEN /\ call_err = "IndexError"
                   /\ Len(call_ret) < Len(call_arg)
                   /\ Hyphens(call_arg[Len(call_ret) + 1]) = {}
              ELSE call_err = ""

C16_Witness ==
    /\ SpecimenCall /\ call_pc = "done"
    /\ call_arg = <<<<"a", "-", "b">>, <<"a", "b">>>>
    /\ call_ret = <<"b">>
    /\ call_err = "IndexError"

FastqcDone == call_fn = "parse_fastqc" /\ call_pc = "done"

\* C17: when total_deduplicated_percentage or Total Sequences is absent from
\* the file, parse_fastqc raises ValueError naming exactly the absent ones and
\* returns nothing; it returns a table only when both are present.
C17_MissingColumnsRaiseValueError ==
    FastqcDone =>
        LET absent == {c \in {"total_deduplicated_percentage", "Total Sequences"} :
                          c \notin call_arg.cols}
        IN  /\ absent # {} =>
                  /\ call_err = "ValueError"
                  /\ {call_local[k] : k \in 1..Len(call_local)} = absent
                  /\ call_ret = <<>>
            /\ call_ret # <<>> => absent = {}

C17_Witness ==
    /\ FastqcDone
    /\ call_arg.cols = {"Sample", "Total Sequences"}
    /\ call_arg.rows # <<>>
    /\ call_err = "ValueError"
    /\ call_local = <<"total_deduplicated_percentage">>

C17_WitnessTable ==
    /\ FastqcDone
    /\ call_err = ""
    /\ Len(call_ret) = 1
    /\ call_ret[1].rows # <<>>
    /\ call_ret[1].rows[1].UniqueReadsM = <<0, 750000>>

\* C18: with include_fname read_dxfile returns the file's n rows after a first
\* row that holds the file name and a null in every other column, n + 1 rows
\* with a column file_name; without it, the parsed table and no file_name.
C18_DummyFirstRow ==
    (call_fn = "read_dxfile" /\ call_pc = "done") =>
        LET f == call_arg[1]
            t == call_ret[1]
            n == Len(f.rows)
        IN  IF call_arg[2]
            THEN /\ t.cols = f.cols \cup {"file_name"}
                 /\ Len(t.rows) = n + 1
                 /\ t.rows[1]["file_name"] = f.name
                 /\ \A c \in f.cols : IsNull(c, t.rows[1][c])
                 /\ \A k \in 1..n :
                       /\ t.rows[k + 1]["file_name"] = f.name
                       /\ \A c \in f.cols : t.rows[k + 1][c] = f.rows[k][c]
            ELSE /\ t = Table(f.cols, f.rows)
                 /\ "file_name" \notin t.cols

\* C25: after add_extra_columns the sheet has, from the start column on, one
\* new column per entry of extra_cols in their order, the columns that were at
\* or after the start column moved right by the number of entries and the
\* others in place; each new column has the entry's name in row 1 and, in every
\* row r from 2 to the last row, the entry's formula with each {row} replaced
\* by r and the rest of its text unchanged.
C25_ExtraColumnsInserted ==
    (call_fn = "add_extra_columns" /\ call_pc = "done") =>
        LET w == call_arg.worksheet
            d == call_arg.extra_cols
            st == call_arg.start
            n == Len(d)
            out == call_ret[1].cells
        IN  /\ n > 0 => Len(out) = max_row(w)
            /\ \A r \in 1..Len(w.cells) :
                  /\ Len(out[r]) = Len(w.cells[r]) + n
                  /\ \A c \in 1..Len(w.cells[r]) :
                        out[r][IF c < st THEN c ELSE c + n] = w.cells[r][c]
            /\ \A k \in 1..n :
                  /\ out[1][st + k - 1] = d[k].name
                  /\ \A r \in 2..max_row(w) :
                        LET text == out[r][st + k - 1]
                        IN  /\ Len(text) = Len(d[k].formula)
                            /\ \A q \in 1..Len(text) :
                                  text[q] = IF d[k].formula[q] = "{row}"
                                            THEN ToString(r)
                                            ELSE d[k].formula[q]

C25_Witness ==
    /\ call_fn = "add_extra_columns" /\ call_pc = "done"
    /\ call_arg.start = 2
    /\ Len(call_arg.worksheet.cells) = 3
    /\ Len(call_arg.extra_cols) = 2
    /\ call_ret[1].cells[1] = <<"v11", "SPECIMEN", "ID", "v12">>
    /\ call_ret[1].cells[3][1] = "v31"
    /\ call_ret[1].cells[3][3] = <<"=CONCATENATE(A", "3", ",\"_\",L", "3", ")">>
    /\ call_ret[1].cells[3][4] = "v32"

-----------------------------------------------------------------------------
(* The static-file script: generate_static_file (scripts/generate_sf_static.py) *)

MaxStaticFiles == 3

\* get_project_ids: the projects whose name matches, in the order groupby
\* sorts their ids
Projects == <<"project-1", "project-2">>

\* the values of a file's archivalState
ArchivalStates == {"live", "archival", "archived", "unarchiving"}

\* find_sf_files: the record of a file found in a project
FoundFiles ==
    {[project_id |-> Projects[p], archival_state |-> a] :
        p \in 1..Len(Projects), a \in ArchivalStates}

\* check_archival_state asking to unarchive the files in state archived only
check_archival_state_archived_only(df) ==
    LET df_archived == {i \in 1..Len(df) : df[i].archival_state \in {"archived"}}
        df_unarchiving == {i \in 1..Len(df) : df[i].archival_state = "unarchiving"}
    IN  IF df_archived # {}
        THEN [requests |-> SelectSeq(Projects,
                             LAMBDA p : \E i \in df_archived : df[i].project_id = p),
              exit |-> TRUE]
        ELSE [requests |-> <<>>, exit |-> df_unarchiving # {}]

\* generate_sf_static.py 92-123: check_archival_state.  With archived or
\* archival files: project_unarchive once per project of df_archived grouped
\* by project_id, then sys.exit(); else sys.exit() when a file is unarchiving
check_archival_state(df) ==
    LET df_archived == {i \in 1..Len(df) :
                          df[i].archival_state \in {"archived", "archival"}}
        df_unarchiving == {i \in 1..Len(df) : df[i].archival_state = "unarchiving"}
    IN  IF df_archived # {}
        THEN [requests |-> SelectSeq(Projects,
                             LAMBDA p : \E i \in df_archived : df[i].project_id = p),
              exit |-> TRUE]
        ELSE [requests |-> <<>>, exit |-> df_unarchiving # {}]

\* generate_sf_static.py 165: the files parse_fusion_files keeps
LiveFiles == {i \in 1..Len(found) : found[i].archival_state = "live"}

StaticInit ==
    /\ found \in SeqsUpTo(FoundFiles, MaxStaticFiles)
    /\ requests = <<>>
    /\ read_files = {}
    /\ static_err = ""
    /\ static_pc = "find"
    /\ PivotIdle
    /\ ReadIdle
    /\ SheetIdle
    /\ ParseIdle
    /\ PoolIdle

\* generate_sf_static.py 217-220: the listings of the projects concatenated;
\* pd.concat of no listing (no project matched) raises ValueError
FindSfFiles ==
    /\ static_pc = "find"
    /\ \/ /\ found = <<>>
          /\ static_err' = "ValueError"
          /\ static_pc' = "raised"
       \/ /\ static_pc' = "check"
          /\ UNCHANGED static_err
    /\ UNCHANGED <<found, requests, read_files>>
    /\ UNCHANGED <<pivot_vars, read_vars, sheet_vars, parse_vars, pool_vars>>

\* generate_sf_static.py 222: check_archival_state(df); the table of projects
\* without any file has no column archival_state (KeyError)
CheckArchivalState ==
    /\ static_pc = "check"
    /\ IF found = <<>>
       THEN /\ static_err' = "KeyError"
            /\ static_pc' = "raised"
            /\ UNCHANGED requests
       ELSE /\ requests' = check_archival_state(found).requests
            /\ static_pc' = IF check_archival_state(found).exit
                            THEN "exited" ELSE "read"
            /\ UNCHANGED static_err
    /\ UNCHANGED <<found, read_files>>
    /\ UNCHANGED <<pivot_vars, read_vars, sheet_vars, parse_vars, pool_vars>>

\* generate_sf_static.py 171-174 and 126-145: a worker of executor.map reads
\* one of the files kept by the filter on archival_state
ReadSfFile ==
    /\ static_pc = "read"
    /\ \E i \in LiveFiles \ read_files : read_files' = read_files \cup {i}
    /\ UNCHANGED <<found, requests, static_err, static_pc>>
    /\ UNCHANGED <<pivot_vars, read_vars, sheet_vars, parse_vars, pool_vars>>

\* generate_sf_static.py 172-177: the tables read are concatenated; pd.concat
\* of no table raises ValueError
ParseFusionFiles ==
    /\ static_pc = "read"
    /\ read_files = LiveFiles
    /\ IF LiveFiles = {}
       THEN static_err' = "ValueError" /\ static_pc' = "raised"
       ELSE static_pc' = "parsed" /\ UNCHANGED static_err
    /\ UNCHANGED <<found, requests, read_files>>
    /\ UNCHANGED <<pivot_vars, read_vars, sheet_vars, parse_vars, pool_vars>>

StaticNext ==
    \/ FindSfFiles
    \/ CheckArchivalState
    \/ ReadSfFile
    \/ ParseFusionFiles

SpecStatic == StaticInit /\ [][StaticNext]_vars

\* the files in state archived or archival, and the projects that own them
ArchivedFiles ==
    {i \in 1..Len(found) : found[i].archival_state \in {"archived", "archival"}}

\* C30: a file is read only when every file found is live, and every file
\* read is live.  When some file is archived or archival the script exits after
\* exactly one unarchive request to each project that owns such a file, having
\* read nothing; when none is but some file is unarchiving it exits without a
\* request or a read; no request is sent otherwise.
C30_ReadsOnlyWhenAllLive ==
    LET owners == {found[i].project_id : i \in ArchivedFiles}
        unarchiving == {i \in 1..Len(found) : found[i].archival_state = "unarchiving"}
        checked == static_pc \in {"read", "parsed", "exited"}
    IN  /\ read_files # {} =>
              \A i \in 1..Len(found) : found[i].archival_state = "live"
        /\ \A i \in read_files : found[i].archival_state = "live"
        /\ (checked /\ ArchivedFiles # {}) =>
              /\ static_pc = "exited"
              /\ {requests[k] : k \in 1..Len(requests)} = owners
              /\ Len(requests) = Cardinality(owners)
              /\ read_files = {}
        /\ (checked /\ ArchivedFiles = {} /\ unarchiving # {}) =>
              /\ static_pc = "exited"
              /\ requests = <<>>
              /\ read_files = {}
        /\ ArchivedFiles = {} => requests = <<>>
        /\ static_pc = "parsed" => read_files = 1..Len(found)

C30_Witness ==
    /\ static_pc = "exited"
    /\ Len(found) = 3
    /\ found[1] = [project_id |-> "project-2", archival_state |-> "archived"]
    /\ found[2] = [project_id |-> "project-1", archival_state |-> "live"]
    /\ found[3] = [project_id |-> "project-2", archival_state |-> "archival"]
    /\ requests = <<"project-2">>
    /\ read_files = {}

C30_WitnessRead ==
    /\ static_pc = "parsed"
    /\ Len(found) = 3
    /\ read_files = {1, 2, 3}
    /\ requests = <<>>

C30_WitnessUnarchiving ==
    /\ static_pc = "exited"
    /\ \E i \in 1..Len(found) : found[i].archival_state = "unarchiving"
    /\ \E i \in 1..Len(found) : found[i].archival_state = "live"
    /\ requests = <<>>
    /\ read_files = {}

====
